---- MODULE Spec2Model ----
(***************************************************************************)
(* GeolocationService of frontend/src/App.tsx: the four-tier location      *)
(* resolver (getCurrentLocation), its in-memory cache, the durable         *)
(* 'lastKnownLocation' record in localStorage, and the watchPosition       *)
(* subscription.                                                           *)
(*                                                                         *)
(* JavaScript runs every handler to completion, so one action is one       *)
(* handler together with the promise continuations it releases.  Time is   *)
(* Date.now() in milliseconds and advances in steps of TickMs.  Latitudes  *)
(* and longitudes are in units of 1e-4 degree.                             *)
(***************************************************************************)
EXTENDS Integers, Sequences, FiniteSets, TLC

\* ------------------------------------------------------------ bounds
MaxTicks == 2
MaxWatches == 1
MaxSearches == 2

TickMs == 150 * 1000
StartTime == 100 * 60 * 1000
MaxNow == StartTime + MaxTicks * TickMs

Calls == {"c1", "c2"}

\* ------------------------------------------------- program constants
CACHE_DURATION == 5 * 60 * 1000
STORAGE_DURATION == 30 * 60 * 1000
GPS_TIMEOUT == 10000
NETWORK_TIMEOUT == 5000

\* ------------------------------------------------------ JavaScript values
NULL == [js |-> "null"]
UNDEFINED == [js |-> "undefined"]
\* The number NaN, and the null that JSON.stringify writes in its place.
NaN == 0 - 10^9
JsonNull == NaN - 1

FALLBACK_LOCATIONS ==
    [jakarta |-> [lat |-> -62088, lng |-> 1068456, source |-> "fallback"]]

\* What the on-device positioning source can report (position.coords).
Positions ==
    { [latitude |-> -62000, longitude |-> 1068000, accuracy |-> 10],
      [latitude |-> -72500, longitude |-> 1127500, accuracy |-> 900] }

\* JSON values of the fields of the network-address lookup's reply.
JNum(n) == [t |-> "number", num |-> n]
JStr(s) == [t |-> "string", str |-> s]
JMissing == [t |-> "missing"]

IPBodies ==
    { [latitude |-> JNum(-61000), longitude |-> JNum(1069000)],
      [latitude |-> JNum(0), longitude |-> JNum(1069000)],
      [latitude |-> JNum(-61000), longitude |-> JMissing],
      [latitude |-> JNum(950000), longitude |-> JNum(1069000)],
      [latitude |-> JStr("abc"), longitude |-> JNum(1069000)] }

IPResponses ==
    { [kind |-> "neterror"], [kind |-> "status", ok |-> FALSE],
      [kind |-> "badjson", ok |-> TRUE] }
    \cup { [kind |-> "data", ok |-> TRUE, data |-> b] : b \in IPBodies }

\* !x of JavaScript, negated: is the JSON value truthy.
Truthy(j) ==
    CASE j.t = "number" -> j.num # 0
      [] j.t = "string" -> j.str # ""
      [] OTHER -> FALSE

\* parseFloat: a number is itself, the non-numeric strings of IPBodies are NaN.
parseFloat(j) ==
    CASE j.t = "number" -> j.num
      [] OTHER -> NaN

\* JSON.parse(JSON.stringify(x)) of a number: NaN is written as null.
JsonNumber(x) == IF x = NaN THEN JsonNull ELSE x

IsCoords(x) == "lat" \in DOMAIN x

\* JSON.parse(JSON.stringify(location)): an undefined location is dropped.
JsonLocation(location) ==
    IF IsCoords(location)
    THEN [location EXCEPT !.lat = JsonNumber(@), !.lng = JsonNumber(@)]
    ELSE location

\* ------------------------------------------------------------- state
VARIABLES
    now,             \* Date.now()
    geoSupported,    \* navigator.geolocation is present
    cachedLocation,  \* GeolocationService.cachedLocation
    cacheTimestamp,  \* GeolocationService.cacheTimestamp
    durable,         \* localStorage['lastKnownLocation']
    storageOk,       \* localStorage takes writes (it throws once full or disabled)
    call,            \* the getCurrentLocation calls in flight
    watches,         \* the active watchPosition handles
    nextWatchId,     \* the next handle the browser hands out
    returned,        \* history: how the last getCurrentLocation call settled
    lastWrite,       \* history: the last write of the in-memory cache
    emitted,         \* the callbacks of the caller the last handler invoked
    server,          \* which of the two server programs is deployed
    ask,             \* the /api/ask requests in flight
    fallbackLocations, \* GeolocationService.FALLBACK_LOCATIONS, the object
    distance,        \* the last call of getDistance and what it returned
    query,           \* App: the text of the input field
    loading,         \* App: a search is shown as running
    responses,       \* App: the entries of the conversation
    pendingMaps,     \* App: the maps waiting to be drawn
    mapCounter,      \* App: mapCounter.current
    search           \* App: the invocations of handleSearch

vars == <<now, geoSupported, cachedLocation, cacheTimestamp, durable,
          storageOk, call, watches, nextWatchId, returned, lastWrite,
          emitted, server, ask, fallbackLocations, distance,
          query, loading, responses, pendingMaps, mapCounter, search>>

\* The state of the App component.
appVars == <<query, loading, responses, pendingMaps, mapCounter, search>>

\* The state of GeolocationService, which the server never touches.
geoVars == <<now, geoSupported, cachedLocation, cacheTimestamp, durable,
             storageOk, call, watches, nextWatchId, returned, lastWrite,
             fallbackLocations, distance>>

ABSENT == [kind |-> "absent"]
Record(location, timestamp) ==
    [kind |-> "record", location |-> location, timestamp |-> timestamp]

\* A call that is not in flight.  pc is where the call waits; started lists
\* the tiers entered so far; p1..p3 are the promises of tiers 1..3; req1 and
\* req2 are the requests made to the on-device source, which stay outstanding
\* when the resolver's own timer fires first; timer is the setTimeout armed.
NoCall ==
    [pc |-> "idle", started |-> <<>>,
     p1 |-> "none", p2 |-> "none", p3 |-> "none",
     req1 |-> "none", req2 |-> "none", timer |-> [tier |-> "none"]]

NONE == [kind |-> "none"]

\* The promise of getCurrentLocation settled.
Settled(outcome, location, cl) ==
    [kind |-> "settled", outcome |-> outcome, location |-> location,
     started |-> cl.started, p1 |-> cl.p1, p2 |-> cl.p2, p3 |-> cl.p3,
     at |-> now]

\* The slot of a call that has settled: its requests may still be answered.
Outstanding(req) == IF req = "pending" THEN "pending" ELSE "none"
Finished(cl) ==
    [NoCall EXCEPT !.req1 = Outstanding(cl.req1), !.req2 = Outstanding(cl.req2)]

\* What a previous session can have left in localStorage: nothing, or the
\* record of a GPS fix that is InitAge old.
InitAge == STORAGE_DURATION - TickMs

InitDurable ==
    { ABSENT,
      Record([lat |-> -62000, lng |-> 1068000, accuracy |-> 10,
              source |-> "gps"], StartTime - InitAge) }

\* The invocations of handleSearch that send a request, each of which can
\* be in flight together with the others, and one that has not started.
\* message is the query of the closure the invocation runs in; clicked is
\* the suggestion whose click scheduled it, if one did; retries is the
\* local of that name and attempts counts the calls of fetch.  The closure
\* and its locals are gone when the invocation has returned.
Searches == 1 .. MaxSearches
NoSearch ==
    [pc |-> "idle", message |-> <<>>, clicked |-> NULL, retries |-> 0,
     attempts |-> 0]

Fresh ==
    /\ now = StartTime
    /\ geoSupported \in BOOLEAN
    /\ cachedLocation = NULL
    /\ cacheTimestamp = 0
    /\ storageOk = TRUE
    /\ call = [c \in Calls |-> NoCall]
    /\ watches = {}
    /\ nextWatchId = 1
    /\ returned = NONE
    /\ lastWrite = [by |-> "init", location |-> NULL, timestamp |-> 0]
    /\ emitted = <<>>
    /\ fallbackLocations = FALLBACK_LOCATIONS
    /\ distance = NONE
    /\ query = <<>>
    /\ loading = FALSE
    /\ responses = <<>>
    /\ pendingMaps = <<>>
    /\ mapCounter = 0
    /\ search = [s \in Searches |-> NoSearch]

\* The two server programs: the one with validation and logging, and the
\* plain one.
Servers == {"hardened", "basic"}
Requests == {"r1", "r2"}

\* A request slot with no request in it.  The fields after pc are history:
\* the message as the handler took it, whether a rule matched, the number
\* of queryLLM invocations, the endpoints contacted in order, how each
\* answered, the value queryLLM returned, and the response sent.
NoRequest ==
    [pc |-> "idle", message |-> NULL, matched |-> FALSE, llmCalls |-> 0,
     contacted |-> <<>>, primary |-> "none", secondary |-> "none",
     oracle |-> NONE, res |-> NONE, prompt |-> <<>>]

NoRequests == ask = [r \in Requests |-> NoRequest]

Init == Fresh /\ durable = ABSENT /\ server = "hardened" /\ NoRequests

CacheInit == Fresh /\ durable \in InitDurable /\ server = "hardened" /\ NoRequests

\* What localStorage can hold under 'lastKnownLocation' besides the record
\* of a previous session: a text that is not JSON, an object without a
\* timestamp, an object without a location (reading it gives undefined)
\* that is TickMs old, and a record that is exactly 30 minutes old.
StoredValues ==
    InitDurable
    \cup { [kind |-> "invalid"],
           [kind |-> "notimestamp",
            location |-> [lat |-> -62000, lng |-> 1068000, accuracy |-> 10,
                          source |-> "gps"]],
           Record(UNDEFINED, StartTime - TickMs),
           Record([lat |-> -62000, lng |-> 1068000, accuracy |-> 10,
                   source |-> "gps"], StartTime - STORAGE_DURATION) }

RestoreInit ==
    /\ Fresh /\ geoSupported /\ durable \in StoredValues
    /\ server = "hardened" /\ NoRequests

AskInit ==
    /\ Fresh /\ geoSupported /\ durable = ABSENT
    /\ server \in Servers
    /\ NoRequests

\* ------------------------------------------------------------- cache
\* Mutant of isCacheValid: an entry that is exactly 5 minutes old is served.
isCacheValidAtWindow ==
    /\ cachedLocation # NULL
    /\ now - cacheTimestamp <= CACHE_DURATION

isCacheValid ==
    /\ cachedLocation # NULL
    /\ now - cacheTimestamp < CACHE_DURATION

\* Mutant of updateCache: a cached GPS fix is not replaced by a coarser one.
updateCacheNoDowngrade(location) ==
    IF cachedLocation # NULL /\ cachedLocation.source = "gps"
          /\ location.source # "gps"
    THEN UNCHANGED <<cachedLocation, cacheTimestamp, durable>>
    ELSE /\ cachedLocation' = location
         /\ cacheTimestamp' = now
         /\ durable' = IF storageOk
                       THEN Record(JsonLocation(location), now)
                       ELSE durable

\* Mutant of updateCache: the timestamp of the entry is not renewed.
updateCacheKeepsTimestamp(location) ==
    /\ cachedLocation' = location
    /\ cacheTimestamp' = cacheTimestamp
    /\ durable' = IF storageOk
                  THEN Record(JsonLocation(location), cacheTimestamp)
                  ELSE durable

\* Mutant of updateCache: an entry that is still valid is not replaced.
updateCacheWhenInvalid(location) ==
    IF isCacheValid
    THEN UNCHANGED <<cachedLocation, cacheTimestamp, durable>>
    ELSE /\ cachedLocation' = location
         /\ cacheTimestamp' = now
         /\ durable' = IF storageOk
                       THEN Record(JsonLocation(location), now)
                       ELSE durable

\* Mutant of updateCache: the record is written before the fields are
\* assigned, and a throw of setItem leaves the method.
updateCacheStoresFirst(location) ==
    IF storageOk
    THEN /\ cachedLocation' = location
         /\ cacheTimestamp' = now
         /\ durable' = Record(JsonLocation(location), now)
    ELSE UNCHANGED <<cachedLocation, cacheTimestamp, durable>>

\* localStorage.setItem throws when storage is full or disabled; the throw is
\* caught and the record stays as it was.
updateCache(location) ==
    /\ cachedLocation' = location
    /\ cacheTimestamp' = now
    /\ durable' = IF storageOk
                  THEN Record(JsonLocation(location), now)
                  ELSE durable

\* The caches and the histories a step of the tier chain leaves alone.
CacheUntouched == UNCHANGED <<cachedLocation, cacheTimestamp, durable, lastWrite>>
\* A handler of the service invokes no callback of the caller, and the
\* server's requests are another process; no method of the service assigns
\* to the fallback table, and none but getDistance returns a distance.
Silent ==
    /\ emitted' = <<>>
    /\ UNCHANGED <<server, ask, fallbackLocations, distance, appVars>>
Environment ==
    /\ UNCHANGED <<now, geoSupported, storageOk, watches, nextWatchId>>
    /\ Silent

\* ------------------------------------------------- the tier functions
\* Each takes the call's record at the point the function is called and
\* gives it back at the next point the call waits.

\* Strategy 4: the static city (every branch returns jakarta); what is
\* returned is the object of the table itself.
getFallbackLocation == fallbackLocations.jakarta

\* Strategy 3: fetch('https://ipapi.co/json/'); the 'timeout' member of the
\* init object is not an option of fetch, so no timer runs.
getIPLocation(cl) ==
    [cl EXCEPT !.started = Append(@, 3), !.pc = "ip", !.p3 = "pending"]

catchNetworkError(cl) == getIPLocation(cl)

\* Strategy 2: getCurrentPosition with enableHighAccuracy false, against a
\* setTimeout of 5 s; throws at once when geolocation is not supported.
getNetworkLocation(cl) ==
    IF ~geoSupported
    THEN [cl EXCEPT !.started = Append(@, 2), !.p2 = "rejected"]
    ELSE [cl EXCEPT !.started = Append(@, 2), !.pc = "network",
                    !.p2 = "pending", !.req2 = "pending",
                    !.timer = [tier |-> "network", ms |-> NETWORK_TIMEOUT]]

\* Mutant of catchGpsError: the catch of tier 1 goes on with tier 3.
catchGpsErrorSkipsTier2(cl) == catchNetworkError(cl)

catchGpsError(cl) ==
    LET n == getNetworkLocation(cl)
    IN  IF n.p2 = "rejected" THEN catchNetworkError(n) ELSE n

\* Strategy 1: getCurrentPosition with enableHighAccuracy true, against a
\* setTimeout of 10 s; throws at once when geolocation is not supported.
getGPSLocation(cl) ==
    IF ~geoSupported
    THEN [cl EXCEPT !.started = Append(@, 1), !.p1 = "rejected"]
    ELSE [cl EXCEPT !.started = Append(@, 1), !.pc = "gps",
                    !.p1 = "pending", !.req1 = "pending",
                    !.timer = [tier |-> "gps", ms |-> GPS_TIMEOUT]]

tierChain(cl) ==
    LET g == getGPSLocation(cl)
    IN  IF g.p1 = "rejected" THEN catchGpsError(g) ELSE g

\* A tier's promise fulfilled with location: updateCache, return.
returnAcquired(c, cl, location) ==
    /\ updateCache(location)
    /\ call' = [call EXCEPT ![c] = Finished(cl)]
    /\ returned' = Settled("fulfilled", location, cl)
    /\ lastWrite' = [by |-> "call", location |-> location, timestamp |-> now]
    /\ Environment

\* ------------------------------------------------ getCurrentLocation
\* Up to the first point the call waits: the cached coordinate, or the tier
\* chain as far as the first request that is sent.
getCurrentLocation(c) ==
    /\ call[c].pc = "idle"
    /\ IF isCacheValid
       THEN /\ returned' = Settled("fulfilled", cachedLocation, NoCall)
            /\ UNCHANGED call
       ELSE /\ call' = [call EXCEPT ![c] = tierChain(NoCall)]
            /\ UNCHANGED returned
    /\ CacheUntouched
    /\ Environment

\* clearTimeout(timeoutId) of the timer a tier armed.
clearTimeout(timer, tier) == IF timer.tier = tier THEN [tier |-> "none"] ELSE timer

\* Mutant of Coords: every position is tagged 'gps'.
CoordsTaggedGps(position, source) ==
    [lat |-> position.latitude, lng |-> position.longitude,
     accuracy |-> position.accuracy, source |-> "gps"]

\* The LocationCoords a position callback builds.
Coords(position, source) ==
    [lat |-> position.latitude, lng |-> position.longitude,
     accuracy |-> position.accuracy, source |-> source]

\* Mutant of gpsPosition: the success callback writes the cache itself, so
\* a position that arrives after the timer is cached.
gpsPositionCachesLate(c, position) ==
    /\ call[c].req1 = "pending"
    /\ LET cl == [call[c] EXCEPT !.timer = clearTimeout(@, "gps")]
       IN  IF cl.p1 = "pending"
           THEN returnAcquired(c, [cl EXCEPT !.p1 = "fulfilled", !.req1 = "answered"],
                               [lat |-> position.latitude, lng |-> position.longitude,
                                accuracy |-> position.accuracy, source |-> "gps"])
           ELSE /\ updateCache([lat |-> position.latitude,
                                lng |-> position.longitude,
                                accuracy |-> position.accuracy, source |-> "gps"])
                /\ call' = [call EXCEPT ![c] = [cl EXCEPT !.req1 = "late"]]
                /\ UNCHANGED <<lastWrite, returned>>
                /\ Environment

\* Tier 1's success callback: clearTimeout, resolve.  resolve on a promise
\* the timer has already rejected changes nothing.
gpsPosition(c, position) ==
    /\ call[c].req1 = "pending"
    /\ LET cl == [call[c] EXCEPT !.timer = clearTimeout(@, "gps")]
       IN  IF cl.p1 = "pending"
           THEN returnAcquired(c, [cl EXCEPT !.p1 = "fulfilled", !.req1 = "answered"],
                               Coords(position, "gps"))
           ELSE /\ call' = [call EXCEPT ![c] = [cl EXCEPT !.req1 = "late"]]
                /\ CacheUntouched
                /\ Environment
                /\ UNCHANGED returned

\* Tier 1's error callback: clearTimeout, reject(formatGeolocationError).
gpsError(c) ==
    /\ call[c].req1 = "pending"
    /\ LET cl == [call[c] EXCEPT !.timer = clearTimeout(@, "gps")]
       IN  call' = [call EXCEPT ![c] =
                      IF cl.p1 = "pending"
                      THEN catchGpsError([cl EXCEPT !.p1 = "rejected",
                                                    !.req1 = "answered"])
                      ELSE [cl EXCEPT !.req1 = "answered"]]
    /\ CacheUntouched
    /\ Environment
    /\ UNCHANGED returned

\* Tier 1's setTimeout callback: reject('GPS timeout after 10 seconds').
\* The request to the positioning source stays outstanding.
gpsTimeout(c) ==
    /\ call[c].timer.tier = "gps"
    /\ call' = [call EXCEPT ![c] =
                  catchGpsError([@ EXCEPT !.p1 = "rejected",
                                          !.timer = [tier |-> "none"]])]
    /\ CacheUntouched
    /\ Environment
    /\ UNCHANGED returned

\* Tier 2's callbacks, as tier 1's.
networkPosition(c, position) ==
    /\ call[c].req2 = "pending"
    /\ LET cl == [call[c] EXCEPT !.timer = clearTimeout(@, "network")]
       IN  IF cl.p2 = "pending"
           THEN returnAcquired(c, [cl EXCEPT !.p2 = "fulfilled", !.req2 = "answered"],
                               Coords(position, "network"))
           ELSE /\ call' = [call EXCEPT ![c] = [cl EXCEPT !.req2 = "late"]]
                /\ CacheUntouched
                /\ Environment
                /\ UNCHANGED returned

networkError(c) ==
    /\ call[c].req2 = "pending"
    /\ LET cl == [call[c] EXCEPT !.timer = clearTimeout(@, "network")]
       IN  call' = [call EXCEPT ![c] =
                      IF cl.p2 = "pending"
                      THEN catchNetworkError([cl EXCEPT !.p2 = "rejected",
                                                        !.req2 = "answered"])
                      ELSE [cl EXCEPT !.req2 = "answered"]]
    /\ CacheUntouched
    /\ Environment
    /\ UNCHANGED returned

networkTimeout(c) ==
    /\ call[c].timer.tier = "network"
    /\ call' = [call EXCEPT ![c] =
                  catchNetworkError([@ EXCEPT !.p2 = "rejected",
                                              !.timer = [tier |-> "none"]])]
    /\ CacheUntouched
    /\ Environment
    /\ UNCHANGED returned

\* The body of getIPLocation after the fetch settles: the coordinate it
\* returns, or NULL when it throws.
ipLocation(resp) ==
    IF resp.kind # "data"
    THEN NULL
    ELSE IF ~Truthy(resp.data.latitude) \/ ~Truthy(resp.data.longitude)
         THEN NULL
         ELSE [lat |-> parseFloat(resp.data.latitude),
               lng |-> parseFloat(resp.data.longitude),
               source |-> "ip"]

\* Mutant of catchIpError: the last catch rethrows instead of falling back.
catchIpErrorRethrows(c, cl) ==
    /\ call' = [call EXCEPT ![c] = Finished(cl)]
    /\ returned' = Settled("rejected", NULL, cl)
    /\ CacheUntouched
    /\ Environment

\* Strategy 4 after tier 3 threw; the static coordinate is returned uncached.
catchIpError(c, cl) ==
    /\ call' = [call EXCEPT ![c] = Finished(cl)]
    /\ returned' = Settled("fulfilled", getFallbackLocation,
                           [cl EXCEPT !.started = Append(@, 4)])
    /\ CacheUntouched
    /\ Environment

\* The fetch of tier 3 settles with resp.
ipResponse(c, resp) ==
    /\ call[c].p3 = "pending"
    /\ IF ipLocation(resp) # NULL
       THEN returnAcquired(c, [call[c] EXCEPT !.p3 = "fulfilled"],
                           ipLocation(resp))
       ELSE catchIpError(c, [call[c] EXCEPT !.p3 = "rejected"])

\* Mutant of restoreFromCache: the restored coordinate is stamped with the
\* time of the restore.
restoreFromCacheRestamps ==
    /\ IF durable.kind = "record" /\ now - durable.timestamp < STORAGE_DURATION
       THEN /\ cachedLocation' = durable.location
            /\ cacheTimestamp' = now
            /\ lastWrite' = [by |-> "restore", location |-> durable.location,
                             timestamp |-> durable.timestamp]
       ELSE UNCHANGED <<cachedLocation, cacheTimestamp, lastWrite>>
    /\ UNCHANGED <<now, geoSupported, durable, storageOk, call, watches,
                   nextWatchId, returned>>
    /\ Silent

\* ------------------------------------------- the public cache operations
restoreFromCache ==
    /\ IF durable.kind = "record" /\ now - durable.timestamp < STORAGE_DURATION
       THEN /\ cachedLocation' = durable.location
            /\ cacheTimestamp' = durable.timestamp
            /\ lastWrite' = [by |-> "restore", location |-> durable.location,
                             timestamp |-> durable.timestamp]
       ELSE UNCHANGED <<cachedLocation, cacheTimestamp, lastWrite>>
    /\ UNCHANGED <<now, geoSupported, durable, storageOk, call, watches,
                   nextWatchId, returned>>
    /\ Silent

\* A throw of localStorage.removeItem is caught.
clearCache ==
    /\ cachedLocation' = NULL
    /\ cacheTimestamp' = 0
    /\ durable' = IF storageOk THEN ABSENT ELSE durable
    /\ lastWrite' = [by |-> "clear", location |-> NULL, timestamp |-> 0]
    /\ returned' = NONE
    /\ UNCHANGED call
    /\ Environment

\* ----------------------------------------------- objects handed out
\* getCurrentLocation returns this.cachedLocation itself on a cache hit,
\* and otherwise the object it has just passed to updateCache;
\* restoreFromCache returns the object it has just stored, the subscriber's
\* callback is passed the object just stored, and getFallbackLocation
\* returns the object of the table.  So whenever the cache holds an object
\* the caller holds a reference to it, and after a call that fell back to
\* tier 4 the caller holds a reference to the table's object.
\* mutate is the caller assigning to the lat field through its reference.
MutatedLat == 0

mutate(target) ==
    /\ CASE target = "cache" ->
              /\ cachedLocation # NULL
              /\ cachedLocation.lat # MutatedLat
              /\ cachedLocation' = [cachedLocation EXCEPT !.lat = MutatedLat]
              /\ UNCHANGED fallbackLocations
         [] target = "fallback" ->
              /\ returned.kind = "settled"
              /\ returned.outcome = "fulfilled"
              /\ returned.started # <<>>
              /\ returned.started[Len(returned.started)] = 4
              /\ fallbackLocations.jakarta.lat # MutatedLat
              /\ fallbackLocations' =
                     [fallbackLocations EXCEPT !.jakarta.lat = MutatedLat]
              /\ UNCHANGED cachedLocation
    /\ emitted' = <<>>
    /\ UNCHANGED <<now, geoSupported, cacheTimestamp, durable, storageOk, call,
                   watches, nextWatchId, returned, lastWrite, server, ask,
                   distance, appVars>>

\* --------------------------------------------------------- getDistance
\* The numbers of getDistance other than the coordinates carry four
\* decimals, and every operation rounds its result to the nearest unit as
\* the arithmetic of doubles rounds to the nearest double.
Scale == 10 ^ 4

Round(a, b) ==
    IF a >= 0 THEN (a + b \div 2) \div b ELSE -(((-a) + b \div 2) \div b)

Times(x, y) == Round(x * y, Scale)

\* Math.PI, and Math.PI / 2.
PI == 31416
HALF_PI == 15708

\* The sine series up to the ninth power, for 0 <= x <= HALF_PI.
SinSeries(x) ==
    LET x2 == Times(x, x)
        x3 == Times(x, x2)
        x5 == Times(x3, x2)
        x7 == Round(Round(x5, 10) * x2, 1000)
        x9 == Round(Round(x7, 10) * x2, 1000)
        v  == x - Round(x3, 6) + Round(x5, 120) - Round(x7, 5040)
                + Round(x9, 362880)
    IN  IF v > Scale THEN Scale ELSE v

\* Math.sin and Math.cos, for arguments within two turns.
RECURSIVE Sin(_)
Sin(x) ==
    IF x < 0 THEN -Sin(-x)
    ELSE IF x > PI THEN -Sin(x - PI)
    ELSE IF x > HALF_PI THEN Sin(PI - x)
    ELSE SinSeries(x)

Cos(x) == Sin(HALF_PI - (IF x < 0 THEN -x ELSE x))

RECURSIVE isqrt(_, _, _)
isqrt(n, lo, hi) ==
    IF lo >= hi THEN lo
    ELSE LET mid == (lo + hi + 1) \div 2
         IN  IF mid * mid <= n THEN isqrt(n, mid, hi) ELSE isqrt(n, lo, mid - 1)

\* Math.sqrt: NaN for a negative argument.
Sqrt(x) ==
    IF x < 0 THEN NaN
    ELSE LET n == x * Scale
             r == isqrt(n, 0, 2 * Scale)
         IN  IF n - r * r > r THEN r + 1 ELSE r

\* The arc tangent of 0 <= t <= 1, as a polynomial.
Atan(t) ==
    LET t2 == Times(t, t)
        p1 == Times(208, t2) - 851
        p2 == Times(p1, t2) + 1801
        p3 == Times(p2, t2) - 3303
        p4 == Times(p3, t2) + 9999
    IN  Times(p4, t)

\* Math.atan2 for arguments that are not negative; NaN if either is NaN.
atan2(y, x) ==
    IF y = NaN \/ x = NaN THEN NaN
    ELSE IF x = 0 /\ y = 0 THEN 0
    ELSE IF x >= y THEN Atan(Round(y * Scale, x))
    ELSE HALF_PI - Atan(Round(x * Scale, y))

\* Earth's radius in kilometers.
R == 6371

\* degrees * (Math.PI / 180), from 1e-4 degree to 1e-4 radian.
toRadians(degrees) == Round(degrees * 349, 20000)

\* The haversine distance in 1e-4 kilometer.
getDistance(coord1, coord2) ==
    LET dLat == toRadians(coord2.lat - coord1.lat)
        dLng == toRadians(coord2.lng - coord1.lng)
        a == Times(Sin(Round(dLat, 2)), Sin(Round(dLat, 2)))
             + Times(Times(Times(Cos(toRadians(coord1.lat)),
                                 Cos(toRadians(coord2.lat))),
                           Sin(Round(dLng, 2))),
                     Sin(Round(dLng, 2)))
        c == atan2(Sqrt(a), Sqrt(Scale - a))
    IN  IF c = NaN THEN NaN ELSE R * (2 * c)

\* The coordinates getDistance is called with.
DistanceCoords ==
    { [lat |-> -62088, lng |-> 1068456], [lat |-> -62000, lng |-> 1068000],
      [lat |-> -72500, lng |-> 1127500], [lat |-> 0, lng |-> 0],
      [lat |-> 0, lng |-> 1800000], [lat |-> -875000, lng |-> 0],
      [lat |-> 875000, lng |-> 1800000], [lat |-> 515074, lng |-> -1278],
      [lat |-> 900000, lng |-> 0], [lat |-> 407128, lng |-> -740060],
      [lat |-> -338688, lng |-> 1512093] }

Distance(coord1, coord2, km) ==
    [kind |-> "distance", coord1 |-> coord1, coord2 |-> coord2, km |-> km]

\* Mutant of callGetDistance: the second coordinate is remembered as the
\* current location.
callGetDistanceCaches(coord1, coord2) ==
    /\ distance' = Distance(coord1, coord2, getDistance(coord1, coord2))
    /\ updateCache([lat |-> coord2.lat, lng |-> coord2.lng, source |-> "gps"])
    /\ emitted' = <<>>
    /\ UNCHANGED <<now, geoSupported, storageOk, call, watches, nextWatchId,
                   returned, lastWrite, server, ask, fallbackLocations,
                   appVars>>

\* A call of the static method GeolocationService.getDistance.
callGetDistance(coord1, coord2) ==
    /\ distance' = Distance(coord1, coord2, getDistance(coord1, coord2))
    /\ emitted' = <<>>
    /\ UNCHANGED <<now, geoSupported, cachedLocation, cacheTimestamp, durable,
                   storageOk, call, watches, nextWatchId, returned, lastWrite,
                   server, ask, fallbackLocations, appVars>>

\* ------------------------------------------------------ watchPosition
\* What the positioning source reports when it fails (GeolocationPositionError).
PositionErrors ==
    { [code |-> 1, message |-> "User denied Geolocation"],
      [code |-> 2, message |-> "Position unavailable"],
      [code |-> 3, message |-> "Timeout expired"] }

\* The message of the Error formatGeolocationError builds.
formatGeolocationError(error) ==
    CASE error.code = 1 -> "Location access denied by user"
      [] error.code = 2 -> "Location information unavailable"
      [] error.code = 3 -> "Location request timed out"
      [] OTHER -> IF error.message # "" THEN error.message
                  ELSE "Unknown geolocation error"

\* errorCallback(error) of the subscriber; watch is 0 when no subscription
\* exists (the handle watchPosition returned is null).
onError(w, code, message, source) ==
    [cb |-> "onError", watch |-> w,
     error |-> [code |-> code, message |-> message, source |-> source]]

\* Mutant of watchPosition: a subscription is made although geolocation is
\* not supported.
watchPositionSubscribesAnyway ==
    /\ nextWatchId <= MaxWatches
    /\ watches' = watches \cup {nextWatchId}
    /\ nextWatchId' = nextWatchId + 1
    /\ emitted' = IF geoSupported THEN <<>>
                  ELSE <<onError(0, -1, "Geolocation not supported", "browser")>>
    /\ CacheUntouched
    /\ UNCHANGED <<now, geoSupported, storageOk, call, returned, server, ask,
                   fallbackLocations, distance, appVars>>

\* watchPosition(callback, errorCallback): without geolocation the error
\* callback is invoked and null returned; with it the browser registers the
\* subscription and hands out the next handle.
watchPosition ==
    /\ IF ~geoSupported
       THEN /\ emitted' = <<onError(0, -1, "Geolocation not supported", "browser")>>
            /\ UNCHANGED <<watches, nextWatchId>>
       ELSE /\ nextWatchId <= MaxWatches
            /\ watches' = watches \cup {nextWatchId}
            /\ nextWatchId' = nextWatchId + 1
            /\ emitted' = <<>>
    /\ CacheUntouched
    /\ UNCHANGED <<now, geoSupported, storageOk, call, returned, server, ask,
                   fallbackLocations, distance, appVars>>

\* callback(location) of the subscriber: what it is passed, and the cache
\* it can read at the moment it is invoked.
onUpdate(w, location, cached, timestamp, record) ==
    [cb |-> "onUpdate", watch |-> w, location |-> location,
     cachedLocation |-> cached, cacheTimestamp |-> timestamp,
     durable |-> record]

\* Mutant of watchUpdate: the subscriber is called back before the cache is
\* written.
watchUpdateCallsBackFirst(w, position) ==
    /\ w \in watches
    /\ emitted' = <<onUpdate(w, Coords(position, "gps"), cachedLocation,
                             cacheTimestamp, durable)>>
    /\ updateCache(Coords(position, "gps"))
    /\ lastWrite' = [by |-> "watch", location |-> Coords(position, "gps"),
                     timestamp |-> now]
    /\ UNCHANGED <<now, geoSupported, storageOk, watches, nextWatchId,
                   call, returned, server, ask,
                   fallbackLocations, distance, appVars>>

\* The success callback of an active subscription: build the coordinate,
\* updateCache(location), callback(location).
watchUpdate(w, position) ==
    /\ w \in watches
    /\ updateCache(Coords(position, "gps"))
    /\ emitted' = <<onUpdate(w, Coords(position, "gps"), cachedLocation',
                             cacheTimestamp', durable')>>
    /\ lastWrite' = [by |-> "watch", location |-> Coords(position, "gps"),
                     timestamp |-> now]
    /\ UNCHANGED <<now, geoSupported, storageOk, watches, nextWatchId,
                   call, returned, server, ask,
                   fallbackLocations, distance, appVars>>

\* The error callback of an active subscription; the subscription goes on.
watchError(w, error) ==
    /\ w \in watches
    /\ emitted' = <<onError(w, error.code, formatGeolocationError(error),
                            "geolocation")>>
    /\ CacheUntouched
    /\ UNCHANGED <<now, geoSupported, storageOk, watches, nextWatchId,
                   call, returned, server, ask,
                   fallbackLocations, distance, appVars>>

\* Mutant of clearWatch: the subscription is left registered.
clearWatchKeepsSubscription(w) ==
    /\ watches' = watches
    /\ CacheUntouched
    /\ UNCHANGED <<now, geoSupported, storageOk, nextWatchId, call, returned>>
    /\ Silent

\* navigator.geolocation?.clearWatch(watchId): the browser drops the
\* subscription; a handle it does not know is ignored.
clearWatch(w) ==
    /\ watches' = watches \ {w}
    /\ CacheUntouched
    /\ UNCHANGED <<now, geoSupported, storageOk, nextWatchId, call, returned>>
    /\ Silent

Tick ==
    /\ now < MaxNow
    /\ now' = now + TickMs
    /\ UNCHANGED <<geoSupported, cachedLocation, cacheTimestamp, durable,
                   storageOk, call, watches, nextWatchId, lastWrite, returned>>
    /\ Silent

\* localStorage stops taking writes: its quota is used up, or it is disabled.
storageFails ==
    /\ storageOk
    /\ storageOk' = FALSE
    /\ UNCHANGED <<now, geoSupported, cachedLocation, cacheTimestamp, durable,
                   call, watches, nextWatchId, lastWrite, returned>>
    /\ Silent


\* ------------------------------------------------------ server: strings
\* A string is the sequence of its pieces, its value their concatenation.
\* The strings below are cut so that every keyword of the rules, the marker,
\* and every space, newline and double quote is a piece of its own, which
\* makes a substring search a search for consecutive pieces.
MARKER == "LOCATION_SEARCH:"
Whitespace == {" ", "\n"}

\* A JavaScript value that is a string.
JsText(t) == [js |-> "string", text |-> t]

\* if (v): a string that is not empty.
truthy(v) == v.js = "string" /\ v.text # <<>>

\* String.prototype.toLowerCase, on the pieces that have capitals.
toLowerCase(t) ==
    [i \in DOMAIN t |->
        CASE t[i] = "ATM" -> "atm"
          [] t[i] = "Hotel" -> "hotel"
          [] OTHER -> t[i]]

RECURSIVE trimStart(_)
trimStart(t) ==
    IF t # <<>> /\ Head(t) \in Whitespace THEN trimStart(Tail(t)) ELSE t

RECURSIVE trimEnd(_)
trimEnd(t) ==
    IF t # <<>> /\ t[Len(t)] \in Whitespace
    THEN trimEnd(SubSeq(t, 1, Len(t) - 1))
    ELSE t

\* String.prototype.trim
trim(t) == trimEnd(trimStart(t))

\* String.prototype.includes
includes(t, word) ==
    \E i \in 1..(Len(t) - Len(word) + 1) :
        SubSeq(t, i, i + Len(word) - 1) = word

\* String.prototype.match with a pattern that is an alternation of words.
match(t, words) == \E word \in words : includes(t, word)

\* String.prototype.length: the characters of all pieces.
RECURSIVE length(_)
length(t) == IF t = <<>> THEN 0 ELSE Len(Head(t)) + length(Tail(t))

\* String.prototype.slice(0, n): the first n characters; the piece that n
\* falls into is cut.
RECURSIVE slice(_, _)
slice(t, n) ==
    IF t = <<>> \/ n <= 0 THEN <<>>
    ELSE IF Len(Head(t)) <= n
    THEN <<Head(t)>> \o slice(Tail(t), n - Len(Head(t)))
    ELSE <<SubSeq(Head(t), 1, n)>>

\* n times the string s.
RECURSIVE repeat(_, _)
repeat(s, n) ==
    IF n = 0 THEN ""
    ELSE IF n % 2 = 0
    THEN LET half == repeat(s, n \div 2) IN half \o half
    ELSE s \o repeat(s, n - 1)

\* validator's escape(): the characters it replaces by HTML entities.
escape(t) ==
    [i \in DOMAIN t |-> IF t[i] = "\"" THEN "&quot;" ELSE t[i]]

\* encodeURIComponent, on the pieces it changes.
encodeURIComponent(t) ==
    [i \in DOMAIN t |->
        CASE t[i] = " " -> "%20"
          [] t[i] = "\n" -> "%0A"
          [] t[i] = "\"" -> "%22"
          [] t[i] = MARKER -> "LOCATION_SEARCH%3A"
          [] OTHER -> t[i]]

\* The position of the first piece p of t, 0 when there is none.
indexOf(t, p) ==
    IF \E i \in DOMAIN t : t[i] = p
    THEN CHOOSE i \in DOMAIN t : t[i] = p /\ \A j \in 1..(i - 1) : t[j] # p
    ELSE 0

\* The last position of the longest run of pieces outside stop that starts
\* right after position i (a greedy [^...]* or .*).
runEnd(t, i, stop) ==
    IF \E j \in (i + 1)..Len(t) : t[j] \in stop
    THEN (CHOOSE j \in (i + 1)..Len(t) :
              t[j] \in stop /\ \A k \in (i + 1)..(j - 1) : t[k] \notin stop) - 1
    ELSE Len(t)

\* llmResponse.match(/LOCATION_SEARCH:([^\n"]*)/)[1]
matchLocationSearch(t) ==
    LET i == indexOf(t, MARKER)
    IN  SubSeq(t, i + 1, runEnd(t, i, {"\n", "\""}))

\* llmResponse.replace(/LOCATION_SEARCH:.*/, ''): the first occurrence, up to
\* the end of its line.
replaceLocationSearch(t) ==
    LET i == indexOf(t, MARKER)
    IN  IF i = 0
        THEN t
        ELSE SubSeq(t, 1, i - 1) \o SubSeq(t, runEnd(t, i, {"\n"}) + 1, Len(t))

\* ------------------------------------------------ server: /api/ask
\* The patterns of the rule chain, in the order the handler tries them.
RestaurantWords ==
    { <<"restoran">>, <<"restaurant">>, <<"makan">>, <<"kuliner">>,
      <<"tempat", " ", "makan">>, <<"warung">>, <<"cafe">>, <<"gultik">> }
PharmacyWords == { <<"apotek">>, <<"pharmacy">>, <<"obat">>, <<"farmasi">> }
GasStationWords ==
    { <<"spbu">>, <<"gas", " ", "station">>, <<"bensin">>, <<"pertamina">>,
      <<"shell">>, <<"pom">> }
HospitalWords ==
    { <<"rumah", " ", "sakit">>, <<"hospital">>, <<"rs", " ">>, <<"klinik">> }
HotelWords == { <<"hotel">>, <<"penginapan">>, <<"homestay">> }

Rule(searchType, responseText) ==
    [searchType |-> JsText(searchType), responseText |-> <<responseText>>]

\* Mutant of rules: the hotel rule is tried before the ATM rule.
rulesHotelFirst(normalizedMessage) ==
    IF match(normalizedMessage, HotelWords)
    THEN Rule(<<"hotels">>, "Saya akan carikan hotel untuk Anda.")
    ELSE IF includes(normalizedMessage, <<"atm">>)
    THEN Rule(<<"ATM">>, "Saya akan carikan ATM untuk Anda.")
    ELSE IF match(normalizedMessage, RestaurantWords)
    THEN Rule(<<"restaurants">>, "Saya akan carikan restoran untuk Anda.")
    ELSE IF match(normalizedMessage, PharmacyWords)
    THEN Rule(<<"pharmacy">>, "Saya akan carikan apotek untuk Anda.")
    ELSE IF match(normalizedMessage, GasStationWords)
    THEN Rule(<<"gas", " ", "station">>, "Saya akan carikan SPBU untuk Anda.")
    ELSE IF match(normalizedMessage, HospitalWords)
    THEN Rule(<<"hospitals">>, "Saya akan carikan rumah sakit untuk Anda.")
    ELSE [searchType |-> NULL, responseText |-> <<"Saya akan membantu Anda.">>]

\* The if / else-if chain: searchType and responseText after it.
rules(normalizedMessage) ==
    IF includes(normalizedMessage, <<"atm">>)
    THEN Rule(<<"ATM">>, "Saya akan carikan ATM untuk Anda.")
    ELSE IF match(normalizedMessage, RestaurantWords)
    THEN Rule(<<"restaurants">>, "Saya akan carikan restoran untuk Anda.")
    ELSE IF match(normalizedMessage, PharmacyWords)
    THEN Rule(<<"pharmacy">>, "Saya akan carikan apotek untuk Anda.")
    ELSE IF match(normalizedMessage, GasStationWords)
    THEN Rule(<<"gas", " ", "station">>, "Saya akan carikan SPBU untuk Anda.")
    ELSE IF match(normalizedMessage, HospitalWords)
    THEN Rule(<<"hospitals">>, "Saya akan carikan rumah sakit untuk Anda.")
    ELSE IF match(normalizedMessage, HotelWords)
    THEN Rule(<<"hotels">>, "Saya akan carikan hotel untuk Anda.")
    ELSE [searchType |-> NULL, responseText |-> <<"Saya akan membantu Anda.">>]

\* The message bodies a client posts: undefined when the field is missing.
Messages ==
    { <<>>, <<" ">>,
      <<"atm">>, <<"makan">>, <<"apotek">>, <<"bensin">>, <<"klinik">>,
      <<"hotel">>,
      <<"Hotel", " ", "dekat", " ", "ATM">>,
      <<"obat", " ", "makan">>,
      <<"penginapan", " ", "rumah", " ", "sakit", " ", "pom">>,
      <<"tre", "atm", "ent">>,
      <<"apa", " ", "kabar">>,
      <<"cari", " ", "\"", "uang", "\"">> }

Bodies == {UNDEFINED} \cup { JsText(m) : m \in Messages }

\* The texts an endpoint can generate.
OracleTexts ==
    { <<"Halo! Ada yang bisa saya bantu?">>,
      <<"Saya akan carikan restoran untuk Anda.", " ", MARKER, "restaurants">>,
      <<"Tentu!", " ", MARKER, " ", "ATM", " ">>,
      <<MARKER, "ATM">>,
      <<"Baik.", " ", MARKER, "bank">>,
      <<"Baik.", " ", MARKER, "hotels", "\n", MARKER, "ATM">>,
      <<"\"", MARKER, "pharmacy", "\"">>,
      <<"Maaf.", " ", MARKER>>,
      <<" ">> }

\* How the call to an endpoint ends: axios rejects (connection error, or its
\* timeout), or the body arrives: without the field the client reads, with
\* that field not holding a text, or holding one (which can be empty).
EndpointResponses ==
    { [kind |-> "error"], [kind |-> "timeout"], [kind |-> "nofield"],
      [kind |-> "text", text |-> UNDEFINED],
      [kind |-> "text", text |-> JsText(<<>>)] }
    \cup { [kind |-> "text", text |-> JsText(t)] : t \in OracleTexts }

UNAVAILABLE ==
    [hardened |-> <<"LLM service unavailable. Please try again later.">>,
     basic |-> <<"LLM service unavailable">>]

\* validateAskRequest and the handler's test of its result; the plain server
\* only tests !message.  Gives the message the handler goes on with, or NULL
\* for the 400 response.
validateAskRequest(body) ==
    IF server = "hardened"
    THEN IF /\ body.js = "string"
            /\ trim(body.text) # <<>>
            /\ length(trim(body.text)) <= 500
         THEN JsText(escape(trim(body.text)))
         ELSE NULL
    ELSE IF truthy(body) THEN body ELSE NULL

\* Mutant of mapData: the map links are built whenever searchType is a
\* string, the empty one included.
mapDataForAnyString(searchType) ==
    IF searchType.js = "string"
    THEN [searchQuery |-> searchType.text,
          mapUrl |-> <<"https://www.google.com/maps/search/">>
                        \o encodeURIComponent(searchType.text),
          embedUrl |-> <<"https://www.google.com/maps/embed/v1/search?key=",
                         "YOUR_API_KEY", "&q=">>
                        \o encodeURIComponent(searchType.text)]
    ELSE NULL

\* mapData of the response.
mapData(searchType) ==
    IF truthy(searchType)
    THEN [searchQuery |-> searchType.text,
          mapUrl |-> <<"https://www.google.com/maps/search/">>
                        \o encodeURIComponent(searchType.text),
          embedUrl |-> <<"https://www.google.com/maps/embed/v1/search?key=",
                         "YOUR_API_KEY", "&q=">>
                        \o encodeURIComponent(searchType.text)]
    ELSE NULL

\* Mutant of resJson: the reply is sent as it is, the marker included.
resJsonKeepsMarker(rq, searchType, llmResponse) ==
    [rq EXCEPT !.pc = "idle",
               !.res = [status |-> 200,
                        reply |-> trim(llmResponse),
                        userMessage |-> rq.message.text,
                        mapData |-> mapData(searchType)]]

\* From 'let mapData = null' to res.json.
resJson(rq, searchType, llmResponse) ==
    [rq EXCEPT !.pc = "idle",
               !.res = [status |-> 200,
                        reply |-> trim(replaceLocationSearch(llmResponse)),
                        userMessage |-> rq.message.text,
                        mapData |-> mapData(searchType)]]

\* Mutant of afterQueryLLM: searchType is a variable of the module, not of
\* the handler, and still holds the category of a request answered before.
afterQueryLLMSharedSearchType(rq, value) ==
    LET others == { r \in Requests :
                      /\ ask[r].pc = "idle" /\ ask[r].res # NONE
                      /\ ask[r].res.status = 200
                      /\ ask[r].res.mapData # NULL }
        shared == IF others = {} THEN NULL
                  ELSE JsText(ask[CHOOSE r \in others : TRUE].res.mapData.searchQuery)
    IN  IF value.js # "string"
        THEN resJson([rq EXCEPT !.oracle = [kind |-> "returned", value |-> value]],
                     shared, <<"Maaf, silakan coba lagi.">>)
        ELSE resJson([rq EXCEPT !.oracle = [kind |-> "returned", value |-> value]],
                     IF includes(value.text, <<MARKER>>)
                     THEN JsText(trim(matchLocationSearch(value.text)))
                     ELSE shared,
                     value.text)

\* The handler after 'await queryLLM(...)' gave value.  A value that is not
\* a string makes llmResponse.includes throw, which the inner catch turns
\* into the apology.
afterQueryLLM(rq, value) ==
    IF value.js # "string"
    THEN resJson([rq EXCEPT !.oracle = [kind |-> "returned", value |-> value]],
                 NULL, <<"Maaf, silakan coba lagi.">>)
    ELSE resJson([rq EXCEPT !.oracle = [kind |-> "returned", value |-> value]],
                 IF includes(value.text, <<MARKER>>)
                 THEN JsText(trim(matchLocationSearch(value.text)))
                 ELSE NULL,
                 value.text)

\* The catch of the primary endpoint's failure: axios.post to Ollama.
tryOllama(rq) ==
    [rq EXCEPT !.pc = "ollama", !.contacted = Append(@, "ollama")]

\* sanitizeInput of the hardened server, for an input that is a string.
sanitizeInput(input) == slice(trim(input), 500)

\* The template literal the handler passes to queryLLM.
template(message) ==
    <<"Analyze:", " ", "\"">> \o message
        \o <<"\"", ". If location search, respond:", " ", "\"",
             "Saya akan carikan [item] untuk Anda.", " ", MARKER, "[type]",
             "\"", " ",
             "where type is ATM, restaurants, pharmacy, gas station, hospitals, or hotels. If not location search, respond helpfully in Indonesian.">>

\* queryLLM up to its first await: axios.post to Open WebUI with the prompt
\* (the hardened server sends sanitizedPrompt).  The prompt is the template
\* around the message and so never empty.
queryLLM(rq) ==
    [rq EXCEPT !.pc = "openwebui", !.llmCalls = @ + 1,
               !.contacted = Append(@, "openwebui"),
               !.prompt = IF server = "hardened"
                          THEN sanitizeInput(template(rq.message.text))
                          ELSE template(rq.message.text)]

\* Mutant of classify: the oracle is asked although a rule matched.
classifyAlwaysAsks(rq) ==
    LET rule == rules(trim(toLowerCase(rq.message.text)))
    IN  queryLLM([rq EXCEPT !.matched = truthy(rule.searchType)])

\* The handler from normalizedMessage on, as far as its first await or its
\* response.
classify(rq) ==
    LET normalizedMessage == trim(toLowerCase(rq.message.text))
        rule == rules(normalizedMessage)
    IN  IF ~truthy(rule.searchType)
        THEN queryLLM([rq EXCEPT !.matched = FALSE])
        ELSE resJson([rq EXCEPT !.matched = TRUE], rule.searchType,
                     rule.responseText \o <<" ", MARKER>>
                         \o rule.searchType.text)

\* The caller's view of the server: nothing of the service changes.
ServerStep ==
    /\ UNCHANGED geoVars /\ emitted' = <<>>
    /\ UNCHANGED server /\ UNCHANGED appVars

\* app.post('/api/ask'): a request arrives in a free slot.
postAsk(r, body) ==
    /\ ask[r].pc = "idle"
    /\ LET message == validateAskRequest(body)
       IN  ask' = [ask EXCEPT ![r] =
                     IF message = NULL
                     THEN [NoRequest EXCEPT !.res = [status |-> 400]]
                     ELSE classify([NoRequest EXCEPT !.message = message])]
    /\ ServerStep

\* What the client reads from a body, per endpoint: the hardened server
\* reads with ?. and throws on a falsy value, the plain one reads with . and
\* throws only when the path is missing.  NULL stands for the throw.
readOpenWebUI(resp) ==
    CASE resp.kind \in {"error", "timeout", "nofield"} -> NULL
      [] server = "hardened" /\ ~truthy(resp.text) -> NULL
      [] OTHER -> resp.text

readOllama(resp) ==
    CASE resp.kind \in {"error", "timeout"} -> NULL
      [] resp.kind = "nofield" /\ server = "hardened" -> NULL
      [] resp.kind = "nofield" -> UNDEFINED
      [] server = "hardened" /\ ~truthy(resp.text) -> NULL
      [] OTHER -> resp.text

Answer(resp) ==
    IF resp.kind = "text"
    THEN IF truthy(resp.text) THEN "text" ELSE "empty"
    ELSE resp.kind

\* The call to Open WebUI ends.
openWebUIResponse(r, resp) ==
    /\ ask[r].pc = "openwebui"
    /\ LET rq == [ask[r] EXCEPT !.primary = Answer(resp)]
       IN  ask' = [ask EXCEPT ![r] =
                     IF readOpenWebUI(resp) = NULL
                     THEN tryOllama(rq)
                     ELSE afterQueryLLM(rq, readOpenWebUI(resp))]
    /\ ServerStep

\* The call to Ollama ends.  The plain server sets no timeout on this call.
ollamaResponse(r, resp) ==
    /\ ask[r].pc = "ollama"
    /\ resp.kind = "timeout" => server = "hardened"
    /\ LET rq == [ask[r] EXCEPT !.secondary = Answer(resp)]
       IN  ask' = [ask EXCEPT ![r] =
                     IF readOllama(resp) = NULL
                     THEN afterQueryLLM(rq, JsText(UNAVAILABLE[server]))
                     ELSE afterQueryLLM(rq, readOllama(resp))]
    /\ ServerStep

\* ------------------------------------------------------- App: search
\* The component's handlers run in the closure of the render they were
\* created in, which holds the query of that render.  A handler the user
\* triggers is the one of the latest render; a callback passed to
\* setTimeout keeps the closure of the render that scheduled it.

\* What the user types into the input field.
Inputs == { <<" ">>, <<"hotel">> }

\* The queries of the quick suggestions.
Suggestions == { <<"ATM", " ", "terdekat">> }

\* The entry handleSearch appends when it fails.
ErrorReply(userMessage) ==
    [reply |-> <<"Maaf, terjadi kesalahan. Pastikan server backend berjalan di port 3000.">>,
     userMessage |-> userMessage, timestamp |-> now]

\* The results of response.json(): a result with and without mapData, and
\* the JSON value null.
ResponseData ==
    { [reply |-> <<"Saya akan carikan ATM untuk Anda.">>,
       userMessage |-> <<"ATM", " ", "terdekat">>,
       mapData |-> [searchQuery |-> <<"ATM">>]],
      [reply |-> <<"Halo! Ada yang bisa saya bantu?">>,
       userMessage |-> <<"hotel">>, mapData |-> NULL],
      NULL }

\* How a fetch that is answered ends: a status that is not ok, a body that
\* is not JSON, or a body that is.
FetchResponses ==
    { [ok |-> FALSE, status |-> 500, body |-> "json", data |-> NULL],
      [ok |-> TRUE, status |-> 200, body |-> "invalid", data |-> NULL] }
    \cup { [ok |-> TRUE, status |-> 200, body |-> "json", data |-> d] :
              d \in ResponseData }

AppStep == UNCHANGED geoVars /\ emitted' = <<>> /\ UNCHANGED <<server, ask>>

\* The invocation has returned after its calls of fetch.
finished(s) == [NoSearch EXCEPT !.pc = "done", !.attempts = search[s].attempts]

\* The catch and the finally of handleSearch: the error entry is appended
\* after the entries the invocation has appended already.
searchFailed(s, entries) ==
    /\ responses' = responses \o entries \o <<ErrorReply(search[s].message)>>
    /\ loading' = FALSE
    /\ search' = [search EXCEPT ![s] = finished(s)]

\* handleSearch in the closure with query q, up to its first await: nothing
\* for a blank query, else setLoading(true) and the first fetch.
runHandleSearch(s, q, clicked) ==
    /\ IF trim(q) = <<>>
       THEN /\ search' = [search EXCEPT ![s] = NoSearch]
            /\ UNCHANGED loading
       ELSE /\ search' = [search EXCEPT ![s] =
                            [NoSearch EXCEPT !.pc = "fetch", !.message = q,
                                             !.clicked = clicked,
                                             !.retries = 3, !.attempts = 1]]
            /\ loading' = TRUE
    /\ UNCHANGED <<query, responses, pendingMaps, mapCounter>>

\* onChange of the input field, which is disabled while loading.
setQuery(text) ==
    /\ ~loading
    /\ query' = text
    /\ UNCHANGED <<loading, responses, pendingMaps, mapCounter, search>>
    /\ AppStep

\* The user presses Enter in the input field (or clicks the button, which
\* is enabled for a query that is not blank): handleSearch of the latest
\* render.
handleSearch(s) ==
    /\ search[s].pc = "idle"
    /\ ~loading
    /\ runHandleSearch(s, query, NULL)
    /\ AppStep

\* quickSearch(searchQuery): setQuery, and setTimeout with a callback that
\* calls the handleSearch of this render, whose closure holds the query of
\* before the click.  The suggestions stay enabled while loading.
quickSearch(s, searchQuery) ==
    /\ search[s].pc = "idle"
    /\ query' = searchQuery
    /\ search' = [search EXCEPT ![s] =
                    [NoSearch EXCEPT !.pc = "timer", !.message = query,
                                     !.clicked = JsText(searchQuery)]]
    /\ UNCHANGED <<loading, responses, pendingMaps, mapCounter>>
    /\ AppStep

\* The callback quickSearch passed to setTimeout runs.
quickSearchTimeout(s) ==
    /\ search[s].pc = "timer"
    /\ runHandleSearch(s, search[s].message, search[s].clicked)
    /\ AppStep

\* Mutant of fetchRejected: the search gives up only when the count has
\* gone below zero.
fetchRejectedOnceMore(s) ==
    /\ search[s].pc = "fetch"
    /\ IF search[s].retries - 1 < 0
       THEN /\ searchFailed(s, <<>>)
            /\ UNCHANGED <<query, pendingMaps, mapCounter>>
       ELSE /\ search' = [search EXCEPT ![s] =
                            [@ EXCEPT !.pc = "wait", !.retries = @ - 1]]
            /\ UNCHANGED <<query, loading, responses, pendingMaps, mapCounter>>
    /\ AppStep

\* fetch rejects (a network error): retries--, rethrow at 0, else wait 1 s.
fetchRejected(s) ==
    /\ search[s].pc = "fetch"
    /\ IF search[s].retries - 1 = 0
       THEN /\ searchFailed(s, <<>>)
            /\ UNCHANGED <<query, pendingMaps, mapCounter>>
       ELSE /\ search' = [search EXCEPT ![s] =
                            [@ EXCEPT !.pc = "wait", !.retries = @ - 1]]
            /\ UNCHANGED <<query, loading, responses, pendingMaps, mapCounter>>
    /\ AppStep

\* The wait of 1 s is over: the next turn of the loop, the next fetch.
retry(s) ==
    /\ search[s].pc = "wait"
    /\ search' = [search EXCEPT ![s] =
                    [@ EXCEPT !.pc = "fetch", !.attempts = @ + 1]]
    /\ UNCHANGED <<query, loading, responses, pendingMaps, mapCounter>>
    /\ AppStep

\* fetch resolves with a response: break.  A status that is not ok throws;
\* else response.json() is awaited, which rejects for a body that is not
\* JSON; else the data is appended, a map is queued when the data has
\* mapData with a searchQuery, the input is emptied and loading ends.
\* Reading data.mapData of null throws after the data has been appended.
fetchResolved(s, resp) ==
    /\ search[s].pc = "fetch"
    /\ CASE ~resp.ok \/ resp.body = "invalid" ->
              /\ searchFailed(s, <<>>)
              /\ UNCHANGED <<query, pendingMaps, mapCounter>>
         [] resp.ok /\ resp.body = "json" /\ resp.data = NULL ->
              /\ searchFailed(s, <<resp.data>>)
              /\ UNCHANGED <<query, pendingMaps, mapCounter>>
         [] OTHER ->
              /\ responses' = Append(responses, resp.data)
              /\ IF resp.data.mapData # NULL
                    /\ resp.data.mapData.searchQuery # <<>>
                 THEN /\ mapCounter' = mapCounter + 1
                      /\ pendingMaps' =
                             Append(pendingMaps,
                                    [searchQuery |-> resp.data.mapData.searchQuery,
                                     mapId |-> <<mapCounter + 1, now>>])
                 ELSE UNCHANGED <<pendingMaps, mapCounter>>
              /\ query' = <<>>
              /\ loading' = FALSE
              /\ search' = [search EXCEPT ![s] = finished(s)]
    /\ AppStep

\* The tier chain of concurrent calls: every callback of every tier, the late
\* ones included; clearCache lets a later call enter the chain again.
Next ==
    \/ \E c \in Calls : getCurrentLocation(c)
    \/ \E c \in Calls, q \in Positions : gpsPosition(c, q)
    \/ \E c \in Calls : gpsError(c)
    \/ \E c \in Calls : gpsTimeout(c)
    \/ \E c \in Calls, q \in Positions : networkPosition(c, q)
    \/ \E c \in Calls : networkError(c)
    \/ \E c \in Calls : networkTimeout(c)
    \/ \E c \in Calls, r \in IPResponses : ipResponse(c, r)
    \/ clearCache
    \/ storageFails

Spec == Init /\ [][Next]_vars

\* The cache over time: every writer of the cache (calls, watch callbacks,
\* restoreFromCache, clearCache) and the clock.
CacheNext ==
    \/ Tick
    \/ \E c \in Calls : getCurrentLocation(c)
    \/ \E c \in Calls, q \in Positions : gpsPosition(c, q)
    \/ \E c \in Calls : gpsError(c)
    \/ \E c \in Calls, q \in Positions : networkPosition(c, q)
    \/ \E c \in Calls : networkError(c)
    \/ \E c \in Calls, r \in IPResponses : ipResponse(c, r)
    \/ restoreFromCache
    \/ clearCache
    \/ storageFails
    \/ watchPosition
    \/ \E w \in 1..MaxWatches, q \in Positions : watchUpdate(w, q)

CacheSpec == CacheInit /\ [][CacheNext]_vars

\* Subscriptions next to calls: updates and errors of the subscriptions,
\* clearWatch with any handle, and calls acquired by tier 1 or tier 2.
WatchNext ==
    \/ Tick
    \/ storageFails
    \/ watchPosition
    \/ \E w \in 1..MaxWatches, q \in Positions : watchUpdate(w, q)
    \/ \E w \in 1..MaxWatches, e \in PositionErrors : watchError(w, e)
    \/ \E w \in 1..MaxWatches : clearWatch(w)
    \/ \E c \in Calls : getCurrentLocation(c)
    \/ \E c \in Calls, q \in Positions : gpsPosition(c, q)
    \/ \E c \in Calls : gpsError(c)
    \/ \E c \in Calls, q \in Positions : networkPosition(c, q)

WatchSpec == Init /\ [][WatchNext]_vars

\* The server handling one request after the other: every message, and
\* every answer of the two endpoints.
AskNext ==
    \/ \E body \in Bodies : postAsk("r1", body)
    \/ \E resp \in EndpointResponses : openWebUIResponse("r1", resp)
    \/ \E resp \in EndpointResponses : ollamaResponse("r1", resp)

AskSpec == AskInit /\ [][AskNext]_vars

\* The caller keeping and writing to the objects it was handed, next to
\* one call at a time, restores and the clock.
AliasNext ==
    \/ Tick
    \/ getCurrentLocation("c1")
    \/ \E q \in Positions : gpsPosition("c1", q)
    \/ gpsError("c1")
    \/ \E q \in Positions : networkPosition("c1", q)
    \/ networkError("c1")
    \/ \E r \in IPResponses : ipResponse("c1", r)
    \/ restoreFromCache
    \/ \E target \in {"cache", "fallback"} : mutate(target)

AliasSpec == CacheInit /\ [][AliasNext]_vars

\* Calls of getDistance next to a call of getCurrentLocation that tier 1
\* answers.
DistanceNext ==
    \/ \E coord1, coord2 \in DistanceCoords : callGetDistance(coord1, coord2)
    \/ getCurrentLocation("c1")
    \/ \E q \in Positions : gpsPosition("c1", q)

DistanceSpec == Init /\ [][DistanceNext]_vars

\* restoreFromCache over whatever localStorage holds, next to calls that
\* tier 1 answers or fails and the clock.
RestoreNext ==
    \/ Tick
    \/ restoreFromCache
    \/ \E c \in Calls : getCurrentLocation(c)
    \/ \E c \in Calls, q \in Positions : gpsPosition(c, q)
    \/ \E c \in Calls : gpsError(c)
    \/ clearCache

RestoreSpec == RestoreInit /\ [][RestoreNext]_vars

\* The search of the App component: typing, Enter, the quick suggestions,
\* and every way a fetch and the reading of its body can end.
SearchNext ==
    \/ \E text \in Inputs : setQuery(text)
    \/ \E s \in Searches : handleSearch(s)
    \/ \E s \in Searches, searchQuery \in Suggestions : quickSearch(s, searchQuery)
    \/ \E s \in Searches : quickSearchTimeout(s)
    \/ \E s \in Searches : fetchRejected(s)
    \/ \E s \in Searches : retry(s)
    \/ \E s \in Searches, resp \in FetchResponses : fetchResolved(s, resp)

SearchInit == Init /\ geoSupported

SearchSpec == SearchInit /\ [][SearchNext]_vars

\* Messages by their length: short ones, one with a double quote, one of 300
\* characters, one of exactly 500 and one of 501.
PromptBodies ==
    { JsText(<<"apa", " ", "kabar">>),
      JsText(<<"cari", " ", "\"", "uang", "\"">>),
      JsText(<<"atm">>),
      JsText(<<repeat("z", 263)>>),
      JsText(<<repeat("z", 264)>>),
      JsText(<<repeat("z", 500)>>),
      JsText(<<repeat("z", 501)>>) }

PromptNext ==
    \/ \E body \in PromptBodies : postAsk("r1", body)
    \/ \E resp \in EndpointResponses : openWebUIResponse("r1", resp)
    \/ \E resp \in EndpointResponses : ollamaResponse("r1", resp)

PromptSpec == AskInit /\ [][PromptNext]_vars

\* Two requests handled concurrently, their endpoint calls interleaved in
\* any order, over a few messages and endpoint answers.
ConcurrentBodies ==
    { JsText(<<"atm">>), JsText(<<"apa", " ", "kabar">>),
      JsText(<<"cari", " ", "\"", "uang", "\"">>) }

ConcurrentResponses ==
    { [kind |-> "error"],
      [kind |-> "text", text |-> JsText(<<"Halo! Ada yang bisa saya bantu?">>)],
      [kind |-> "text",
       text |-> JsText(<<"Saya akan carikan restoran untuk Anda.", " ",
                         MARKER, "restaurants">>)] }

ConcurrentNext ==
    \/ \E r \in Requests, body \in ConcurrentBodies : postAsk(r, body)
    \/ \E r \in Requests, resp \in ConcurrentResponses : openWebUIResponse(r, resp)
    \/ \E r \in Requests, resp \in ConcurrentResponses : ollamaResponse(r, resp)

ConcurrentSpec == AskInit /\ [][ConcurrentNext]_vars

\* ------------------------------------------------------------ claims
Last(seq) == seq[Len(seq)]

\* A call settled with a value the tier chain acquired (not the cached one).
FromChain(r) == r.kind = "settled" /\ r.started # <<>>

\* C1: getCurrentLocation never rejects; a call that went through the tier
\* chain settles with a coordinate, and when tiers 1, 2 and 3 have all failed
\* it settles with the static Jakarta coordinate tagged 'fallback'.
C1_AlwaysSettlesWithCoordinate ==
    returned.kind = "settled" =>
        /\ returned.outcome = "fulfilled"
        /\ FromChain(returned) =>
              /\ IsCoords(returned.location)
              /\ returned.location.source \in {"gps", "network", "ip", "fallback"}
        /\ (returned.p1 = "rejected" /\ returned.p2 = "rejected"
                /\ returned.p3 = "rejected") =>
              returned.location =
                  [lat |-> -62088, lng |-> 1068456, source |-> "fallback"]

\* C1 witness: with geolocation supported, tiers 1, 2 and 3 failed one after
\* the other and the call settled.
C1_Witness ==
    /\ geoSupported
    /\ returned.kind = "settled"
    /\ returned.started = <<1, 2, 3, 4>>
    /\ returned.location.source = "fallback"

\* C2 (as claimed): whenever a call waits for a tier, a timer of the resolver
\* is armed for that tier, so the wait ends without the collaborator.
C2_EveryTierRacedAgainstTimer ==
    \A c \in Calls :
        call[c].pc \in {"gps", "network", "ip"} => call[c].timer.tier = call[c].pc

\* The order of the tiers in one call: started is <<1, ..., k>>, a tier is
\* entered only when the one before it was rejected, and the tier whose
\* promise is pending or fulfilled is the last one entered.
TierOrder(r) ==
    /\ \A i \in 1..Len(r.started) : r.started[i] = i
    /\ Len(r.started) >= 2 => r.p1 = "rejected"
    /\ Len(r.started) >= 3 => r.p2 = "rejected"
    /\ Len(r.started) >= 4 => r.p3 = "rejected"
    /\ r.p1 \in {"pending", "fulfilled"} => Len(r.started) = 1
    /\ r.p2 \in {"pending", "fulfilled"} => Len(r.started) = 2
    /\ r.p3 \in {"pending", "fulfilled"} => Len(r.started) = 3

\* C3: within one call the tiers are started strictly in order, each at most
\* once, the next only after the previous has failed or timed out, and none
\* after the first successful one.
C3_TiersSequential ==
    /\ \A c \in Calls : TierOrder(call[c])
    /\ returned.kind = "settled" => TierOrder(returned)

\* C3 witness: a call waits in tier 3 after tier 1 timed out (its request is
\* still outstanding) and tier 2 failed.
C3_Witness ==
    \E c \in Calls :
        /\ call[c].pc = "ip"
        /\ call[c].started = <<1, 2, 3>>
        /\ call[c].req1 = "pending"

\* A step in which the on-device source answers request k of call c after
\* the promise of that tier was settled by the resolver's timer.
LateAnswer1(c) ==
    /\ call[c].req1 = "pending" /\ call[c].p1 # "pending"
    /\ call'[c].req1 \in {"late", "answered"}
LateAnswer2(c) ==
    /\ call[c].req2 = "pending" /\ call[c].p2 # "pending"
    /\ call'[c].req2 \in {"late", "answered"}

\* C6: an answer of the tier-1 or tier-2 source that arrives after that
\* tier's timer fired writes neither cache, is not returned, and leaves the
\* tiers entered since as they are.
C6_LateResponseDiscarded ==
    [][\A c \in Calls :
          (LateAnswer1(c) \/ LateAnswer2(c)) =>
              /\ UNCHANGED <<cachedLocation, cacheTimestamp, durable, returned>>
              /\ call'[c].pc = call[c].pc
              /\ call'[c].started = call[c].started
              /\ call'[c].timer = call[c].timer
              /\ <<call'[c].p1, call'[c].p2, call'[c].p3>>
                     = <<call[c].p1, call[c].p2, call[c].p3>>
              /\ \A d \in Calls \ {c} : call'[d] = call[d]]_vars

\* C6 witness: the tier-1 position arrived while the call was already
\* waiting in tier 2.
C6_Witness ==
    \E c \in Calls : call[c].req1 = "late" /\ call[c].pc = "network"

\* C10: a coordinate the tier chain returns carries the tag of the tier
\* whose promise was fulfilled: 'gps' tier 1, 'network' tier 2, 'ip' tier 3,
\* and 'fallback' only when tier 3 was rejected.
C10_SourceTagIsTier ==
    FromChain(returned) =>
        /\ returned.location.source = "gps" <=> returned.p1 = "fulfilled"
        /\ returned.location.source = "network" <=> returned.p2 = "fulfilled"
        /\ returned.location.source = "ip" <=> returned.p3 = "fulfilled"
        /\ returned.location.source = "fallback" <=> returned.p3 = "rejected"

\* C10 witness: tier 1 failed and tier 2 produced the result.
C10_Witness ==
    /\ returned.kind = "settled"
    /\ returned.started = <<1, 2>>
    /\ returned.location.source = "network"

\* ---------------------------------------------- claims about the cache
\* A step in which a getCurrentLocation call settles.
Settles == returned' # returned /\ returned'.kind = "settled"

\* The step is getCurrentLocation(c) answered from the in-memory cache with
\* location: no tier is entered and no request is sent.
ServedFromCache(location) ==
    /\ returned'.kind = "settled"
    /\ returned'.started = <<>>
    /\ returned'.location = location
    /\ call' = call

C7_ServedIffFresh ==
    [][\A c \in Calls :
          getCurrentLocation(c) =>
              IF cachedLocation # NULL /\ now - cacheTimestamp < 5 * 60 * 1000
              THEN ServedFromCache(cachedLocation)
              ELSE /\ returned' = returned
                   /\ call'[c].pc # "idle"
                   /\ call'[c].started[1] = 1]_vars

\* C7 witness: a call cached its result, nothing has written the cache
\* since, and with that entry exactly 5 minutes old both slots hold calls in
\* tier 1, so the call that reused the settled call's slot was not served.
C7_Witness ==
    /\ \A c \in Calls : call[c].pc = "gps"
    /\ FromChain(returned)
    /\ Last(returned.started) # 4
    /\ lastWrite.by = "call"
    /\ cacheTimestamp = returned.at
    /\ now - cacheTimestamp = CACHE_DURATION

\* C8 (as claimed): after restoreFromCache has returned a durable record,
\* and before any other write of the in-memory cache, a getCurrentLocation
\* made while the record is less than 30 minutes old returns the record's
\* coordinate and sends no request.
C8_RestoredRecordServed ==
    [][\A c \in Calls :
          (/\ getCurrentLocation(c)
           /\ lastWrite.by = "restore"
           /\ now - lastWrite.timestamp < STORAGE_DURATION)
          => ServedFromCache(lastWrite.location)]_vars

\* C9: the in-memory cache is the pair one write set: the coordinate and
\* the time of the last updateCache, restoreFromCache or clearCache, and the
\* coordinate is null exactly when the time is 0.
C9_CachePairConsistent ==
    /\ cachedLocation = NULL <=> cacheTimestamp = 0
    /\ cachedLocation = lastWrite.location
    /\ cacheTimestamp = lastWrite.timestamp

\* C9 witness: a watch callback has overwritten, at a later time and with
\* another coordinate, the entry a call had cached.
C9_Witness ==
    /\ lastWrite.by = "watch"
    /\ FromChain(returned)
    /\ Last(returned.started) # 4
    /\ returned.at < cacheTimestamp
    /\ returned.location # cachedLocation

\* A latitude and a longitude within the ranges of the globe (1e-4 degree).
InRange(location) ==
    /\ location.lat >= -900000 /\ location.lat <= 900000
    /\ location.lng >= -1800000 /\ location.lng <= 1800000

\* C11 (as claimed): every coordinate a call returned or the cache holds has
\* its latitude in [-90, 90] and its longitude in [-180, 180], whatever the
\* positioning sources and the network-address lookup answered.
C11_CoordinatesInRange ==
    /\ (returned.kind = "settled" /\ IsCoords(returned.location)) =>
           InRange(returned.location)
    /\ cachedLocation # NULL => InRange(cachedLocation)

\* ------------------------------------------- claims about /api/ask
\* The six categories in their priority order, with the patterns of each.
Priority ==
    << [category |-> <<"ATM">>, words |-> { <<"atm">> }],
       [category |-> <<"restaurants">>, words |-> RestaurantWords],
       [category |-> <<"pharmacy">>, words |-> PharmacyWords],
       [category |-> <<"gas", " ", "station">>, words |-> GasStationWords],
       [category |-> <<"hospitals">>, words |-> HospitalWords],
       [category |-> <<"hotels">>, words |-> HotelWords] >>

Categories == { Priority[i].category : i \in DOMAIN Priority }

\* The canned response sentence of each category.
Canned(category) ==
    CASE category = <<"ATM">> -> <<"Saya akan carikan ATM untuk Anda.">>
      [] category = <<"restaurants">> -> <<"Saya akan carikan restoran untuk Anda.">>
      [] category = <<"pharmacy">> -> <<"Saya akan carikan apotek untuk Anda.">>
      [] category = <<"gas", " ", "station">> -> <<"Saya akan carikan SPBU untuk Anda.">>
      [] category = <<"hospitals">> -> <<"Saya akan carikan rumah sakit untuk Anda.">>
      [] category = <<"hotels">> -> <<"Saya akan carikan hotel untuk Anda.">>

\* The categories whose patterns the normalized form of message matches.
Matching(message) ==
    { i \in DOMAIN Priority :
        \E word \in Priority[i].words :
            includes(trim(toLowerCase(message)), word) }

\* Request r was classified and answered with a result.
Answered(r) == ask[r].pc = "idle" /\ ask[r].res # NONE /\ ask[r].res.status = 200

\* The category of a result: the searchQuery of its mapData, <<>> for None.
Category(res) == IF res.mapData = NULL THEN <<>> ELSE res.mapData.searchQuery

\* queryLLM gave the handler a text.
OracleText(r) ==
    /\ ask[r].oracle # NONE
    /\ ask[r].oracle.value.js = "string"

\* Both endpoints were contacted and both failed: an error, a timeout, or a
\* body that is malformed or empty.
BothFailed(r) ==
    /\ ask[r].primary \in {"error", "timeout", "nofield", "empty"}
    /\ ask[r].secondary \in {"error", "timeout", "nofield", "empty"}

\* C12: a request whose normalized message matches a rule is answered with
\* the category of the rules and without a queryLLM invocation or a contact
\* of an endpoint; a request whose message matches none invokes queryLLM
\* exactly once, from the moment it waits for the oracle on.
C12_OracleOnlyWhenNoRuleMatches ==
    \A r \in Requests :
        /\ ask[r].message # NULL =>
              IF Matching(ask[r].message.text) # {}
              THEN /\ ask[r].llmCalls = 0
                   /\ ask[r].contacted = <<>>
                   /\ Answered(r)
                   /\ Category(ask[r].res) \in
                          { Priority[i].category : i \in Matching(ask[r].message.text) }
              ELSE ask[r].llmCalls = 1
        /\ ask[r].pc # "idle" => Matching(ask[r].message.text) = {}

\* C12 witness: a message that matches the rules of two categories was
\* answered without the oracle.
C12_Witness ==
    \E r \in Requests :
        /\ Answered(r)
        /\ Cardinality(Matching(ask[r].message.text)) = 2
        /\ ask[r].llmCalls = 0

\* C13: when the normalized message matches the patterns of two or more
\* categories, the category of the result is the matching one that comes
\* first in ATM > restaurants > pharmacy > gas station > hospitals > hotels.
C13_FirstMatchWins ==
    \A r \in Requests :
        (Answered(r) /\ Cardinality(Matching(ask[r].message.text)) >= 2) =>
            \E i \in Matching(ask[r].message.text) :
                /\ \A j \in Matching(ask[r].message.text) : i <= j
                /\ Category(ask[r].res) = Priority[i].category

\* C13 witness: the hotel keyword came first in the text and the ATM
\* keyword last, in capitals, and the result is ATM.
C13_Witness ==
    \E r \in Requests :
        /\ Answered(r)
        /\ ask[r].message.text = <<"Hotel", " ", "dekat", " ", "ATM">>
        /\ Category(ask[r].res) = <<"ATM">>

\* C14 (as claimed): when both endpoints failed, the request is answered
\* with a normal result whose mapData is null and whose reply is the apology
\* 'Maaf, silakan coba lagi.'.
C14_OracleFailureGivesApology ==
    \A r \in Requests :
        (ask[r].pc = "idle" /\ ask[r].res # NONE /\ BothFailed(r)) =>
            /\ ask[r].res.status = 200
            /\ ask[r].res.mapData = NULL
            /\ ask[r].res.reply = <<"Maaf, silakan coba lagi.">>

\* C15 (as claimed): when no rule matched and the oracle's text contains
\* the marker, the category is the name after its first occurrence (up to
\* the end of the line or a double quote, trimmed) and no marker remains in
\* the reply.
C15_MarkerExtractedAndStripped ==
    \A r \in Requests :
        (/\ Answered(r) /\ ~ask[r].matched /\ OracleText(r)
         /\ includes(ask[r].oracle.value.text, <<MARKER>>)) =>
            /\ Category(ask[r].res)
                   = trim(matchLocationSearch(ask[r].oracle.value.text))
            /\ ~includes(ask[r].res.reply, <<MARKER>>)

\* C16 (as claimed): the reply of every result is a non-empty string.
C16_ReplyNeverEmpty ==
    \A r \in Requests : Answered(r) => ask[r].res.reply # <<>>

\* C17 (as claimed): the category of every result is one of the six
\* categories or None.
C17_CategoryInClosedSet ==
    \A r \in Requests :
        Answered(r) => Category(ask[r].res) \in Categories \cup {<<>>}

\* C18 (as claimed): whenever a result has one of the six categories, by
\* rule or by oracle, its reply is exactly the canned sentence of that
\* category.
C18_ReplyIsCannedSentence ==
    \A r \in Requests :
        (Answered(r) /\ Category(ask[r].res) \in Categories) =>
            ask[r].res.reply = Canned(Category(ask[r].res))

\* C18 (amended): when a rule resolved the category, the reply is exactly
\* the canned sentence of that category, with no marker; when the oracle's
\* text resolved it, the reply is that text without the span from the first
\* marker to the end of its line, trimmed.
C18_RuleReplyIsCannedSentence ==
    \A r \in Requests :
        (Answered(r) /\ Category(ask[r].res) # <<>>) =>
            IF Matching(ask[r].message.text) # {}
            THEN /\ ask[r].res.reply = Canned(Category(ask[r].res))
                 /\ ~includes(ask[r].res.reply, <<MARKER>>)
            ELSE /\ OracleText(r)
                 /\ ask[r].res.reply
                        = trim(replaceLocationSearch(ask[r].oracle.value.text))

\* C18 witness: a rule resolved 'gas station', the category whose name has
\* a space in it, and the reply is its sentence.
C18_Witness ==
    \E r \in Requests :
        /\ Answered(r)
        /\ ask[r].matched
        /\ Category(ask[r].res) = <<"gas", " ", "station">>
        /\ ask[r].res.reply = <<"Saya akan carikan SPBU untuk Anda.">>

\* C19 (as claimed): Ollama is contacted exactly when Open WebUI failed (an
\* error, a timeout, a malformed or an empty body), each endpoint at most
\* once and Open WebUI first, and when both failed queryLLM reports a
\* failure to the handler, not a text.
C19_SecondaryIffPrimaryFailed ==
    \A r \in Requests :
        /\ ask[r].contacted \in {<<>>, <<"openwebui">>, <<"openwebui", "ollama">>}
        /\ ask[r].primary # "none" =>
              (Len(ask[r].contacted) = 2
                  <=> ask[r].primary \in {"error", "timeout", "nofield", "empty"})
        /\ (BothFailed(r) /\ ask[r].oracle # NONE) => ~OracleText(r)

\* ---------------------------------------- claims about watchPosition
\* The step delivers an update of a subscription to its subscriber.
Delivers == emitted' # <<>> /\ emitted'[1].cb = "onUpdate"

\* C20 (as claimed): on each update of a subscription the in-memory cache
\* and the durable record hold the new coordinate and the current time when
\* onUpdate is invoked, and onUpdate is invoked once, with that coordinate.
C20_CachesRefreshedBeforeOnUpdate ==
    [][Delivers =>
          /\ Len(emitted') = 1
          /\ emitted'[1].cachedLocation = emitted'[1].location
          /\ emitted'[1].cacheTimestamp = now
          /\ emitted'[1].durable = Record(JsonLocation(emitted'[1].location), now)]_vars

\* C20 (amended): on each update of a subscription updateCache has run when
\* onUpdate is invoked: the in-memory cache holds the new coordinate and
\* the current time, and the durable record holds them too unless setItem
\* threw, in which case it is as it was; onUpdate is invoked once, with
\* that coordinate, and the caches are not written after it.
C20_UpdateCacheBeforeOnUpdate ==
    [][Delivers =>
          /\ Len(emitted') = 1
          /\ emitted'[1].cachedLocation = emitted'[1].location
          /\ emitted'[1].cacheTimestamp = now
          /\ emitted'[1].durable =
                 IF storageOk
                 THEN Record(JsonLocation(emitted'[1].location), now)
                 ELSE durable
          /\ cachedLocation' = emitted'[1].cachedLocation
          /\ cacheTimestamp' = emitted'[1].cacheTimestamp
          /\ durable' = emitted'[1].durable]_vars

\* C20 witness: an update was delivered after an earlier cache entry had
\* been written, and both caches held the update when onUpdate ran.
C20_Witness ==
    /\ emitted # <<>>
    /\ emitted[1].cb = "onUpdate"
    /\ emitted[1].cacheTimestamp > StartTime
    /\ emitted[1].durable = Record(emitted[1].location, emitted[1].cacheTimestamp)
    /\ returned.kind = "settled"
    /\ returned.location # emitted[1].location

\* The step invokes the error callback of a subscriber.
Fails == emitted' # <<>> /\ emitted'[1].cb = "onError"

\* C21: when a subscription fails (permission denied, position unavailable,
\* timeout) or watchPosition is called without geolocation, onError is
\* invoked once with the error classified by its code, and cachedLocation,
\* cacheTimestamp and the durable record stay as they are; without
\* geolocation no subscription is made and no handle handed out.
C21_WatchErrorLeavesCache ==
    [][/\ (watchPosition /\ ~geoSupported) => Fails
       /\ \A w \in 1..MaxWatches, e \in PositionErrors : watchError(w, e) => Fails
       /\ Fails =>
            /\ Len(emitted') = 1
            /\ UNCHANGED <<cachedLocation, cacheTimestamp, durable>>
            /\ IF ~geoSupported
               THEN /\ emitted'[1].watch = 0
                    /\ emitted'[1].error =
                           [code |-> -1, message |-> "Geolocation not supported",
                            source |-> "browser"]
                    /\ UNCHANGED <<watches, nextWatchId>>
               ELSE /\ emitted'[1].watch \in watches
                    /\ emitted'[1].error \in
                           { [code |-> 1, message |-> "Location access denied by user",
                              source |-> "geolocation"],
                             [code |-> 2, message |-> "Location information unavailable",
                              source |-> "geolocation"],
                             [code |-> 3, message |-> "Location request timed out",
                              source |-> "geolocation"] }]_vars

\* C21 witness: a subscription that had filled the cache failed with
\* 'permission denied', and the cache still holds its last update.
C21_Witness ==
    /\ emitted # <<>>
    /\ emitted[1].cb = "onError"
    /\ emitted[1].error.code = 1
    /\ lastWrite.by = "watch"
    /\ cachedLocation # NULL
    /\ durable = Record(cachedLocation, cacheTimestamp)

\* C22: clearWatch(handle) leaves no subscription under that handle and
\* touches nothing else; a handle that is not registered, cleared before or
\* never handed out, makes it a no-op; only registered subscriptions invoke
\* callbacks or write the cache, and a cleared handle is never registered
\* again.
C22_ClearWatchStopsSubscription ==
    [][/\ \A w \in 1..MaxWatches :
            clearWatch(w) =>
                /\ w \notin watches'
                /\ emitted' = <<>>
                /\ UNCHANGED <<cachedLocation, cacheTimestamp, durable, nextWatchId>>
                /\ w \notin watches => watches' = watches
       /\ (emitted' # <<>> /\ emitted'[1].watch # 0) => emitted'[1].watch \in watches
       /\ (lastWrite'.by = "watch" /\ lastWrite' # lastWrite) =>
              (Delivers /\ emitted'[1].watch \in watches)
       /\ \A w \in 1..MaxWatches :
              (w < nextWatchId /\ w \notin watches) => w \notin watches']_vars

\* C22 witness: the handle that was handed out is cleared, and time has
\* passed since the last update its subscription delivered.
C22_Witness ==
    /\ nextWatchId > 1
    /\ 1 \notin watches
    /\ lastWrite.by = "watch"
    /\ now > cacheTimestamp

C28_WatchFixNotTaggedGps ==
    /\ (emitted # <<>> /\ emitted[1].cb = "onUpdate") =>
           emitted[1].location.source # "gps"
    /\ lastWrite.by = "watch" => cachedLocation.source # "gps"
    /\ (lastWrite.by = "watch" /\ returned.kind = "settled"
            /\ returned.started = <<>> /\ returned.at >= lastWrite.timestamp) =>
           returned.location.source # "gps"

\* C29 (as claimed): restoreFromCache does not replace an in-memory entry
\* by a durable record that is older than it.
C29_RestoreNeverStaler ==
    [][(/\ restoreFromCache
        /\ cachedLocation # NULL
        /\ durable.kind = "record"
        /\ durable.timestamp < cacheTimestamp)
       => UNCHANGED <<cachedLocation, cacheTimestamp>>]_vars

\* A field of the lookup's reply that is a number within lo..hi.
NumberWithin(j, lo, hi) == j.t = "number" /\ j.num >= lo /\ j.num <= hi

\* C30 (as claimed): a reply of the network-address lookup whose latitude
\* and longitude are numbers in range, 0 included, is returned tagged 'ip'
\* with those numbers; the call goes on to the static fallback only when
\* the request failed, the status was not ok, or a field is missing.
C30_Tier3AcceptsValidNumbers ==
    [][\A c \in Calls, resp \in IPResponses :
          ipResponse(c, resp) =>
              IF /\ resp.kind = "data"
                 /\ NumberWithin(resp.data.latitude, -900000, 900000)
                 /\ NumberWithin(resp.data.longitude, -1800000, 1800000)
              THEN returned'.location =
                       [lat |-> resp.data.latitude.num,
                        lng |-> resp.data.longitude.num, source |-> "ip"]
              ELSE returned'.location.source = "fallback" =>
                       \/ resp.kind # "data"
                       \/ resp.data.latitude.t = "missing"
                       \/ resp.data.longitude.t = "missing"]_vars

\* The result of a request as its own message and the value its own
\* queryLLM call returned determine it.
OwnResult(rq) ==
    IF Matching(rq.message.text) # {}
    THEN LET i == CHOOSE i \in Matching(rq.message.text) :
                      \A j \in Matching(rq.message.text) : i <= j
         IN  [status |-> 200, reply |-> Canned(Priority[i].category),
              userMessage |-> rq.message.text,
              mapData |-> mapData(JsText(Priority[i].category))]
    ELSE IF rq.oracle.value.js # "string"
    THEN [status |-> 200, reply |-> <<"Maaf, silakan coba lagi.">>,
          userMessage |-> rq.message.text, mapData |-> NULL]
    ELSE [status |-> 200,
          reply |-> trim(replaceLocationSearch(rq.oracle.value.text)),
          userMessage |-> rq.message.text,
          mapData |-> IF includes(rq.oracle.value.text, <<MARKER>>)
                      THEN mapData(JsText(trim(matchLocationSearch(rq.oracle.value.text))))
                      ELSE NULL]

\* C25: with two requests handled concurrently, each step belongs to one
\* request and leaves the other as it is, the result of each request is
\* determined by its own message and its own oracle response, and requests
\* with equal message and oracle response have equal results.
C25_RequestsShareNoState ==
    [][/\ \A r \in Requests :
            ask'[r] # ask[r] => \A o \in Requests \ {r} : ask'[o] = ask[o]
       /\ \A r \in Requests :
            (ask'[r].pc = "idle" /\ ask'[r].res # NONE /\ ask'[r].res.status = 200)
                => ask'[r].res = OwnResult(ask'[r])
       /\ \A r, o \in Requests :
            (/\ ask'[r].pc = "idle" /\ ask'[r].res # NONE
             /\ ask'[o].pc = "idle" /\ ask'[o].res # NONE
             /\ ask'[r].message = ask'[o].message
             /\ ask'[r].oracle = ask'[o].oracle)
                => ask'[r].res = ask'[o].res]_vars

\* C25 witness: two requests with the same message that no rule matches
\* are both answered; one got its text with the marker from Open WebUI,
\* the other got the same text from Ollama after Open WebUI failed, and
\* the two results are equal.
C25_Witness ==
    /\ Answered("r1") /\ Answered("r2")
    /\ ask["r1"].message = ask["r2"].message
    /\ ask["r1"].oracle = ask["r2"].oracle
    /\ ask["r1"].oracle # NONE
    /\ includes(ask["r1"].oracle.value.text, <<MARKER>>)
    /\ Len(ask["r1"].contacted) = 1
    /\ Len(ask["r2"].contacted) = 2
    /\ ask["r1"].res = ask["r2"].res

\* C24 (as claimed): when the caller assigns to a field of an object it got
\* from getCurrentLocation (a cached coordinate, a coordinate of a tier, or
\* the static fallback) or from restoreFromCache, the in-memory cache and
\* the fallback table stay as they are, so later calls return what they
\* would have returned.
C24_CopiedOnRead ==
    [][(\E target \in {"cache", "fallback"} : mutate(target))
          => UNCHANGED <<cachedLocation, fallbackLocations>>]_vars

\* C26: a call of getDistance leaves cachedLocation, cacheTimestamp and the
\* durable record as they are, and starts no request to a positioning
\* source (no call of the resolver moves, no subscription is added).
C26_GetDistanceIsPure ==
    [][distance' # distance
          => UNCHANGED <<cachedLocation, cacheTimestamp, durable, call,
                         watches, nextWatchId>>]_vars

\* C26 witness: getDistance has returned the distance from the cached
\* coordinate to a far one while the cache and the durable record hold the
\* coordinate that a call of the resolver acquired.
C26_Witness ==
    /\ distance # NONE
    /\ distance.km > 0
    /\ cachedLocation # NULL
    /\ durable # ABSENT
    /\ returned.kind = "settled"
    /\ distance.coord1.lat = cachedLocation.lat
    /\ distance.coord1.lng = cachedLocation.lng

\* Equality of two numbers in JavaScript: NaN equals nothing.
Equals(x, y) == x # NaN /\ y # NaN /\ x = y

\* C27 (as claimed): for coordinates A and B in range, getDistance(A, A) is
\* 0 and getDistance(A, B) equals getDistance(B, A).
C27_ZeroAndSymmetric ==
    (distance # NONE /\ InRange(distance.coord1) /\ InRange(distance.coord2)) =>
        /\ distance.coord1 = distance.coord2 => Equals(distance.km, 0)
        /\ Equals(distance.km, getDistance(distance.coord2, distance.coord1))

\* C31 (as claimed): for every message the validation accepts, what is sent
\* to the oracle endpoints is the complete template around the message, the
\* instruction that names the marker and the six categories included.
C31_PromptIsCompleteTemplate ==
    \A r \in Requests :
        ask[r].contacted # <<>> => ask[r].prompt = template(ask[r].message.text)

\* The text has a marker that a name follows on its line: something other
\* than whitespace before the next double quote.
NamedMarker(t) ==
    \E i \in DOMAIN t :
        /\ t[i] = MARKER
        /\ trim(SubSeq(t, i + 1, runEnd(t, i, {"\n", "\""}))) # <<>>

\* The category the handler resolved for an answered request: the category
\* of the first rule that matches, else the name after the first marker of
\* the oracle's text, else none.
Resolved(rq) ==
    IF Matching(rq.message.text) # {}
    THEN Priority[CHOOSE i \in Matching(rq.message.text) :
                     \A j \in Matching(rq.message.text) : i <= j].category
    ELSE IF rq.oracle.value.js = "string" /\ includes(rq.oracle.value.text, <<MARKER>>)
    THEN trim(matchLocationSearch(rq.oracle.value.text))
    ELSE <<>>

\* mapData carries category: its searchQuery is the category, its two links
\* end in the URL-encoded category.
Carries(res, category) ==
    /\ res.mapData # NULL
    /\ res.mapData.searchQuery = category
    /\ res.mapData.mapUrl =
           <<"https://www.google.com/maps/search/">> \o encodeURIComponent(category)
    /\ res.mapData.embedUrl =
           <<"https://www.google.com/maps/embed/v1/search?key=", "YOUR_API_KEY",
             "&q=">> \o encodeURIComponent(category)

\* C32 (as claimed): in every result mapData is null exactly when no rule
\* matched and the oracle's text has no marker followed by a name, and then
\* the reply is the oracle's text, trimmed; otherwise mapData carries the
\* resolved category.
C32_MapDataIffCategoryAsClaimed ==
    \A r \in Requests :
        Answered(r) =>
            /\ ask[r].res.mapData = NULL
                  <=> /\ Matching(ask[r].message.text) = {}
                      /\ ~(OracleText(r) /\ NamedMarker(ask[r].oracle.value.text))
            /\ (ask[r].res.mapData = NULL /\ OracleText(r)) =>
                  ask[r].res.reply = trim(ask[r].oracle.value.text)
            /\ ask[r].res.mapData # NULL => Carries(ask[r].res, Resolved(ask[r]))

\* C32 (amended): in every result mapData is null exactly when no category
\* was resolved: no rule matched and what queryLLM returned is not a text
\* whose first marker is followed by a name.  Then the reply is the apology
\* when queryLLM returned no text, and otherwise the text without its first
\* marker and the rest of that line, trimmed.  Otherwise mapData carries the
\* resolved category.
C32_MapDataIffCategory ==
    \A r \in Requests :
        Answered(r) =>
            /\ ask[r].res.mapData = NULL <=> Resolved(ask[r]) = <<>>
            /\ ask[r].res.mapData = NULL =>
                  ask[r].res.reply =
                      IF OracleText(r)
                      THEN trim(replaceLocationSearch(ask[r].oracle.value.text))
                      ELSE <<"Maaf, silakan coba lagi.">>
            /\ ask[r].res.mapData # NULL => Carries(ask[r].res, Resolved(ask[r]))

\* C32 witness: no rule matched, the oracle's text has the marker with no
\* name after it, and the result has no mapData and the text before the
\* marker as its reply.
C32_Witness ==
    /\ Answered("r1")
    /\ ~ask["r1"].matched
    /\ OracleText("r1")
    /\ includes(ask["r1"].oracle.value.text, <<MARKER>>)
    /\ ask["r1"].res.mapData = NULL
    /\ ask["r1"].res.reply = <<"Maaf.">>

\* The durable record is bad: not a parsed object with both fields, or 30
\* minutes old or more.
BadRecord ==
    \/ durable.kind # "record"
    \/ durable.location = UNDEFINED
    \/ now - durable.timestamp >= STORAGE_DURATION

\* C33 (as claimed): restoreFromCache with a durable value that is absent,
\* not JSON, without location or timestamp, or 30 minutes old or more leaves
\* cachedLocation and cacheTimestamp as they are, and every call of
\* getCurrentLocation that is fulfilled returns a coordinate.
C33_RestoreFailsSafe ==
    [][/\ (restoreFromCache /\ BadRecord)
             => UNCHANGED <<cachedLocation, cacheTimestamp>>
       /\ (returned'.kind = "settled" /\ returned'.outcome = "fulfilled")
             => IsCoords(returned'.location)]_vars

\* The call c has returned location with the tiers it had entered, and has
\* entered no further tier.
ReturnsAcquired(c, location) ==
    /\ cachedLocation' = location
    /\ cacheTimestamp' = now
    /\ durable' = durable
    /\ returned'.kind = "settled"
    /\ returned'.outcome = "fulfilled"
    /\ returned'.location = location
    /\ returned'.started = call[c].started
    /\ call'[c].pc = "idle"

\* C34: while localStorage.setItem throws, a tier's coordinate still
\* replaces the in-memory coordinate and timestamp and is what the call
\* returns, with no lower tier entered, and a subscription's update still
\* replaces them and is delivered to the subscriber; the durable record
\* stays as it was.
C34_StorageFailureDoesNotAffectResolution ==
    [][~storageOk =>
          /\ \A c \in Calls, q \in Positions :
                (gpsPosition(c, q) /\ call[c].p1 = "pending")
                    => ReturnsAcquired(c, Coords(q, "gps"))
          /\ \A c \in Calls, q \in Positions :
                (networkPosition(c, q) /\ call[c].p2 = "pending")
                    => ReturnsAcquired(c, Coords(q, "network"))
          /\ \A w \in 1..MaxWatches, q \in Positions :
                watchUpdate(w, q) =>
                    /\ cachedLocation' = Coords(q, "gps")
                    /\ cacheTimestamp' = now
                    /\ durable' = durable
                    /\ Len(emitted') = 1
                    /\ emitted'[1].cb = "onUpdate"
                    /\ emitted'[1].location = Coords(q, "gps")]_vars

\* C34 witness: with localStorage refusing writes a call was answered by
\* tier 2 after tier 1 failed; it returned the coordinate, which the
\* in-memory cache holds with the time of the return, and no durable record
\* was written.
C34_Witness ==
    /\ ~storageOk
    /\ returned.kind = "settled"
    /\ returned.outcome = "fulfilled"
    /\ returned.started = <<1, 2>>
    /\ returned.location.source = "network"
    /\ cachedLocation = returned.location
    /\ cacheTimestamp = returned.at
    /\ durable = ABSENT

\* C35: handleSearch with a query that is not blank calls fetch at most 3
\* times; a call after the first is made only after the call before it
\* rejected (the invocation is in the wait that follows a rejection); a
\* call that is answered is the last one, and the invocation has returned
\* after it; the third rejection and an answer whose status is not ok
\* append the error reply with the invocation's message, and nothing else.
C35_AtMostThreeAttempts ==
    [][\A s \in Searches :
          /\ search'[s].attempts <= 3
          /\ search'[s].attempts > search[s].attempts =>
                 \/ search[s].pc \in {"idle", "timer"} /\ search'[s].attempts = 1
                 \/ search[s].pc = "wait" /\ search'[s].attempts = search[s].attempts + 1
          /\ search'[s].pc = "wait" /\ search[s].pc # "wait" => fetchRejected(s)
          /\ search[s].pc = "done" => search'[s] = search[s]
          /\ \A resp \in FetchResponses :
                 fetchResolved(s, resp) =>
                     /\ search'[s].pc = "done"
                     /\ search'[s].attempts = search[s].attempts
          /\ \/ fetchRejected(s) /\ search[s].attempts = 3
             \/ \E resp \in FetchResponses : ~resp.ok /\ fetchResolved(s, resp)
             => /\ responses' = Append(responses, ErrorReply(search[s].message))
                /\ search'[s].pc = "done"
                /\ ~loading'
    ]_vars

\* An invocation has returned after three calls of fetch, and the error
\* reply for the typed query is the last entry of responses.
C35_Witness ==
    \E s \in Searches :
        /\ search[s].pc = "done"
        /\ search[s].attempts = 3
        /\ responses # <<>>
        /\ responses[Len(responses)] = ErrorReply(<<"hotel">>)


\* An invocation of handleSearch returns in this step, after a request.
Completes(s) == search[s].pc \in {"fetch", "wait"} /\ search'[s].pc = "done"

\* C36: an invocation of handleSearch with a query that is not blank
\* appends exactly one entry to responses when it returns, whatever the
\* path, and leaves loading false; responses grows in no other step; an
\* invocation with a blank query changes no state of the component.
C36_ExactlyOneEntry ==
    [][/\ \A s \in Searches :
              /\ Completes(s) => /\ Len(responses') = Len(responses) + 1
                                 /\ ~loading'
              /\ \/ handleSearch(s) /\ trim(query) = <<>>
                 \/ quickSearchTimeout(s) /\ trim(search[s].message) = <<>>
                 => UNCHANGED <<query, loading, responses, pendingMaps, mapCounter>>
       /\ responses' # responses => \E s \in Searches : Completes(s)
    ]_vars

\* The same for the responses whose body is not the JSON value null: the
\* data is an object or the body is not JSON at all.
C36_ExactlyOneEntryForObjects ==
    [][\A s \in Searches :
          Completes(s) /\ (\A e \in 1 .. Len(responses') : responses'[e] # NULL)
              => Len(responses') = Len(responses) + 1 /\ ~loading'
    ]_vars


\* C37: when the callback that quickSearch(q) scheduled runs, a POST to
\* /api/ask is sent whose message is q, whatever the input field held
\* before the click.
C37_QuickSearchPostsClicked ==
    [][\A s \in Searches :
          search[s].pc = "timer" /\ search'[s].pc # "timer"
              => /\ search'[s].pc = "fetch"
                 /\ JsText(search'[s].message) = search[s].clicked
    ]_vars

\* A request is in flight that a click on a suggestion started, and its
\* message is the text the input field held before the click.
C37_PostsOldText ==
    \E s \in Searches :
        /\ search[s].pc = "fetch"
        /\ search[s].clicked # NULL
        /\ JsText(search[s].message) # search[s].clicked

====
